---------------------------- MODULE Spec2Model ----------------------------
(***************************************************************************)
(* SQL statement validator and access-control engine of postgres-mcp       *)
(* (src/src/services/sql_validator.py, class SQLValidator).                *)
(*                                                                         *)
(* An SQL text is a sequence of lexemes.  A lexeme is a word (keyword or   *)
(* identifier, in some letter case), a punctuation sign, a quote, one of   *)
(* the comment delimiters "/*", "*/", "--", or the line break "NL".        *)
(* Lexemes are separated by blanks, so every word lexeme is a whole word   *)
(* in the sense of the regular expressions' \b.                            *)
(***************************************************************************)
EXTENDS Integers, Sequences, FiniteSets, TLC

(***************************************************************************)
(* Letter case.  str.lower() and str.upper() on the words of the alphabet. *)
(* Words written in one case only are their own image in that case;       *)
(* the words listed here are the ones the alphabet holds in another case.  *)
(***************************************************************************)
LowerTab ==
    [w \in {"Users", "USERS", "Orders", "Password", "PG_TABLES"} |->
        CASE w = "Users" -> "users"
          [] w = "USERS" -> "users"
          [] w = "Orders" -> "orders"
          [] w = "Password" -> "password"
          [] w = "PG_TABLES" -> "pg_tables"]

UpperTab ==
    [w \in {"drop", "Drop", "delete", "select", "SeLeCt", "from", "update", "with", "as",
            "vacuum", "Select", "Union", "Commit", "Delete", "NoneType"} |->
        CASE w = "drop" -> "DROP"
          [] w = "Select" -> "SELECT"
          [] w = "Union" -> "UNION"
          [] w = "Commit" -> "COMMIT"
          [] w = "Delete" -> "DELETE"
          [] w = "NoneType" -> "NONETYPE"
          [] w = "Drop" -> "DROP"
          [] w = "delete" -> "DELETE"
          [] w = "select" -> "SELECT"
          [] w = "SeLeCt" -> "SELECT"
          [] w = "from" -> "FROM"
          [] w = "update" -> "UPDATE"
          [] w = "vacuum" -> "VACUUM"
          [] w = "with" -> "WITH"
          [] w = "as" -> "AS"]

\* str.lower() of a word
Lower(w) == IF w \in DOMAIN LowerTab THEN LowerTab[w] ELSE w

\* str.upper() of a word, as far as keywords are concerned
Upper(w) == IF w \in DOMAIN UpperTab THEN UpperTab[w] ELSE w

\* the lexemes that are not words (\W in the regular expressions)
Signs == {"/*", "*/", "--", "NL", "'", ";", "(", ")", ",", ".", "*", "="}

IsWord(x) == x \notin Signs

(***************************************************************************)
(* Sequence helpers.                                                       *)
(***************************************************************************)
\* index of the first occurrence of x in s at or after position i, 0 if none
RECURSIVE IndexFrom(_, _, _)
IndexFrom(s, x, i) ==
    IF i > Len(s) THEN 0
    ELSE IF s[i] = x THEN i
    ELSE IndexFrom(s, x, i + 1)

\* s from position i to its end
Drop(s, i) == IF i > Len(s) THEN <<>> ELSE SubSeq(s, i, Len(s))

(***************************************************************************)
(* Stage 1: _remove_comments.                                              *)
(***************************************************************************)
\* re.sub(r"/\*.*?\*/", "", sql, flags=re.DOTALL): leftmost "/*" up to the
\* nearest following "*/", repeated; a "/*" with no "*/" after it stays.
RECURSIVE SubBlockComments(_)
SubBlockComments(s) ==
    IF s = <<>> THEN <<>>
    ELSE IF Head(s) = "/*" /\ IndexFrom(s, "*/", 2) # 0
         THEN SubBlockComments(Drop(s, IndexFrom(s, "*/", 2) + 1))
         ELSE <<Head(s)>> \o SubBlockComments(Tail(s))

\* re.sub(r"--.*$", "", sql, flags=re.MULTILINE): "--" up to the end of its line
RECURSIVE SubLineComments(_)
SubLineComments(s) ==
    IF s = <<>> THEN <<>>
    ELSE IF Head(s) = "--"
         THEN IF IndexFrom(s, "NL", 2) = 0 THEN <<>>
              ELSE SubLineComments(Drop(s, IndexFrom(s, "NL", 2)))
         ELSE <<Head(s)>> \o SubLineComments(Tail(s))

\* str.strip(): line breaks at both ends removed
RECURSIVE LStrip(_)
LStrip(s) ==
    IF s # <<>> /\ Head(s) = "NL" THEN LStrip(Tail(s)) ELSE s

RECURSIVE RStrip(_)
RStrip(s) ==
    IF s # <<>> /\ s[Len(s)] = "NL" THEN RStrip(SubSeq(s, 1, Len(s) - 1)) ELSE s

Strip(s) == RStrip(LStrip(s))

RemoveComments(sql) == Strip(SubLineComments(SubBlockComments(sql)))

(***************************************************************************)
(* Stage 2: the keyword denylist, FORBIDDEN_PATTERNS, compiled with        *)
(* re.IGNORECASE and applied with pattern.search to the cleaned text.      *)
(***************************************************************************)
ForbiddenWords ==
    {"INSERT", "UPDATE", "DELETE", "DROP", "TRUNCATE", "ALTER", "CREATE",
     "GRANT", "REVOKE", "EXECUTE", "CONNECT", "USE"}

\* r"\bKW\b" for one of the twelve single-word patterns
MatchesWordPattern(s) ==
    \E i \in 1..Len(s) : IsWord(s[i]) /\ Upper(s[i]) \in ForbiddenWords

\* r"\bWITH\s+.*\bDROP\b": WITH, blank space, then DROP later on the same line
\* ("." does not match a line break; \s+ does)
MatchesWithDrop(s) ==
    \E i \in 1..Len(s) : \E j \in (i + 1)..Len(s) :
        /\ IsWord(s[i]) /\ Upper(s[i]) = "WITH"
        /\ IsWord(s[j]) /\ Upper(s[j]) = "DROP"
        /\ \A k \in (i + 2)..(j - 1) : s[k] # "NL"

MatchesForbidden(s) == MatchesWordPattern(s) \/ MatchesWithDrop(s)

(***************************************************************************)
(* Stage 3: sqlglot.parse(cleaned_sql, read="postgres").  The tokenizer    *)
(* turns a quoted string into one token and skips comments and line        *)
(* breaks; a string with no closing quote raises TokenError.  The parser   *)
(* splits the tokens at ";" and parses each chunk; it raises ParseError on *)
(* a chunk it cannot parse.                                                *)
(***************************************************************************)
StrTok == "'str'"

RECURSIVE TokenizeFrom(_)
TokenizeFrom(s) ==
    IF s = <<>> THEN [ok |-> TRUE, toks |-> <<>>]
    ELSE IF Head(s) = "NL" THEN TokenizeFrom(Tail(s))
    ELSE IF Head(s) = "'"
         THEN IF IndexFrom(s, "'", 2) = 0
              THEN [ok |-> FALSE, toks |-> <<>>]
              ELSE LET rest == TokenizeFrom(Drop(s, IndexFrom(s, "'", 2) + 1))
                   IN  [ok |-> rest.ok, toks |-> <<StrTok>> \o rest.toks]
    ELSE IF Head(s) = "/*"
         THEN IF IndexFrom(s, "*/", 2) = 0
              THEN [ok |-> TRUE, toks |-> <<>>]
              ELSE TokenizeFrom(Drop(s, IndexFrom(s, "*/", 2) + 1))
    ELSE IF Head(s) = "--"
         THEN IF IndexFrom(s, "NL", 2) = 0
              THEN [ok |-> TRUE, toks |-> <<>>]
              ELSE TokenizeFrom(Drop(s, IndexFrom(s, "NL", 2)))
    ELSE LET rest == TokenizeFrom(Tail(s))
         IN  [ok |-> rest.ok, toks |-> <<Head(s)>> \o rest.toks]

Tokenize(s) == TokenizeFrom(s)

\* the chunks between semicolons: a semicolon opens a new chunk unless it is
\* the last token
RECURSIVE Chunks(_, _)
Chunks(toks, cur) ==
    IF toks = <<>> THEN <<cur>>
    ELSE IF Head(toks) = ";"
         THEN IF Len(toks) > 1 THEN <<cur>> \o Chunks(Tail(toks), <<>>)
              ELSE <<cur>>
         ELSE Chunks(Tail(toks), Append(cur, Head(toks)))

ReservedWords ==
    ForbiddenWords \cup
    {"SELECT", "FROM", "WHERE", "JOIN", "ON", "IN", "WITH", "AS", "UNION",
     "COMMIT", "TABLE"}

Tok(t, i) == IF i >= 1 /\ i <= Len(t) THEN t[i] ELSE "EOF"

Kw(t, i) == Upper(Tok(t, i))

IsNumber(x) == x \in {"1", "2"}

IsIdent(x) ==
    /\ IsWord(x)
    /\ x \notin {StrTok, "EOF"}
    /\ ~IsNumber(x)
    /\ Upper(x) \notin ReservedWords

\* AST nodes, as far as the validator reads them: exp.Table (name, alias, db)
\* and exp.Column (name, table qualifier); depth is the node's depth in the
\* tree, joins whether each enclosing exp.Select has joins (innermost first),
\* scopes the FROM tables ("" when FROM is no plain table) of the
\* enclosing exp.Select nodes, innermost first.
TableNode(name, alias, db, d) ==
    [name |-> name, alias |-> alias, db |-> db, depth |-> d]

ColumnNode(name, qual, d) ==
    [name |-> name, qual |-> qual, depth |-> d, scopes |-> <<>>, joins |-> <<>>]

PFail ==
    [ok |-> FALSE, pos |-> 0, tabs |-> <<>>, cols |-> <<>>, from |-> "", joined |-> FALSE]

POk(p, tabs, cols) ==
    [ok |-> TRUE, pos |-> p, tabs |-> tabs, cols |-> cols, from |-> "", joined |-> FALSE]

AddScope(cols, from, joined) ==
    [k \in 1..Len(cols) |->
        [cols[k] EXCEPT !.scopes = Append(@, from), !.joins = Append(@, joined)]]

\* column reference: name | qualifier.name | qualifier.*
ParseColRef(t, i, d) ==
    IF ~IsIdent(Tok(t, i)) THEN PFail
    ELSE IF Tok(t, i + 1) = "."
         THEN IF IsIdent(Tok(t, i + 2)) \/ Tok(t, i + 2) = "*"
              THEN POk(i + 3, <<>>, <<ColumnNode(Tok(t, i + 2), Tok(t, i), d)>>)
              ELSE PFail
         ELSE POk(i + 1, <<>>, <<ColumnNode(Tok(t, i), "", d)>>)

\* one projection or operand: *, a literal, or a column reference
ParseItem(t, i, d) ==
    IF Tok(t, i) = "*" \/ Tok(t, i) = StrTok \/ IsNumber(Tok(t, i))
    THEN POk(i + 1, <<>>, <<>>)
    ELSE ParseColRef(t, i, d)

\* a, then b parsed from where a ended
Then(a, b) ==
    IF a.ok /\ b.ok THEN POk(b.pos, a.tabs \o b.tabs, a.cols \o b.cols) ELSE PFail

RECURSIVE ParseItems(_, _, _)

\* the items after the item a
ItemsAfter(t, d, a) ==
    IF ~a.ok THEN PFail
    ELSE IF Tok(t, a.pos) # "," THEN a
    ELSE Then(a, ParseItems(t, a.pos + 1, d))

\* item {, item}
ParseItems(t, i, d) == ItemsAfter(t, d, ParseItem(t, i, d))

RECURSIVE ParseSelect(_, _, _)
RECURSIVE ParseTableRef(_, _, _)
RECURSIVE ParseCond(_, _, _)
RECURSIVE ParseJoins(_, _, _)

\* q followed by its closing parenthesis
Closed(t, q) ==
    IF q.ok /\ Tok(t, q.pos) = ")" THEN POk(q.pos + 1, q.tabs, q.cols) ELSE PFail

\* the optional alias after a parenthesised subquery
OptAlias(t, q) ==
    IF ~q.ok THEN PFail
    ELSE POk(IF IsIdent(Tok(t, q.pos)) THEN q.pos + 1 ELSE q.pos, q.tabs, q.cols)

\* [schema.]table [alias]: one exp.Table, child of the From or Join of the
\* Select at depth sd
PlainTable(t, i, sd, qualified) ==
    LET name == IF qualified THEN Tok(t, i + 2) ELSE Tok(t, i)
        db == IF qualified THEN Tok(t, i) ELSE ""
        p == IF qualified THEN i + 3 ELSE i + 1
    IN  [ok |-> TRUE, pos |-> IF IsIdent(Tok(t, p)) THEN p + 1 ELSE p,
         tabs |-> <<TableNode(name, IF IsIdent(Tok(t, p)) THEN Tok(t, p) ELSE "", db, sd + 2)>>,
         cols |-> <<>>, from |-> name, joined |-> FALSE]

\* FROM/JOIN operand of the Select at depth sd: [schema.]table [alias], or a
\* parenthesised subquery with an optional alias
ParseTableRef(t, i, sd) ==
    IF Tok(t, i) = "("
    THEN OptAlias(t, Closed(t, ParseSelect(t, i + 1, sd + 3)))
    ELSE IF ~IsIdent(Tok(t, i)) THEN PFail
    ELSE PlainTable(t, i, sd, Tok(t, i + 1) = "." /\ IsIdent(Tok(t, i + 2)))

\* what follows the first column a of a condition
CondAfter(t, sd, a) ==
    IF ~a.ok THEN PFail
    ELSE IF Tok(t, a.pos) = "="
    THEN IF Tok(t, a.pos + 1) # "*"
         THEN Then(a, ParseItem(t, a.pos + 1, sd + 3)) ELSE PFail
    ELSE IF Kw(t, a.pos) = "IN"
    THEN IF Tok(t, a.pos + 1) = "("
         THEN Then(a, Closed(t, ParseSelect(t, a.pos + 2, sd + 4))) ELSE PFail
    ELSE a

\* WHERE/ON condition of the Select at depth sd:
\* column | column = operand | column IN ( select )
ParseCond(t, i, sd) == CondAfter(t, sd, ParseColRef(t, i, sd + 3))

\* the joins after what was parsed so far
JoinMore(t, sd, a) == Then(a, ParseJoins(t, a.pos, sd))

\* the optional ON condition after the join operand r
JoinOn(t, sd, r) ==
    IF ~r.ok THEN PFail
    ELSE JoinMore(t, sd, Then(r, IF Kw(t, r.pos) = "ON" THEN ParseCond(t, r.pos + 1, sd)
                                 ELSE POk(r.pos, <<>>, <<>>)))

\* {JOIN ref [ON cond]}
ParseJoins(t, i, sd) ==
    IF Kw(t, i) # "JOIN" THEN POk(i, <<>>, <<>>)
    ELSE JoinOn(t, sd, ParseTableRef(t, i + 1, sd))

\* the optional WHERE condition after what was parsed so far
SelectWhere(t, sd, a) ==
    IF ~a.ok THEN PFail
    ELSE Then(a, IF Kw(t, a.pos) = "WHERE" THEN ParseCond(t, a.pos + 1, sd)
                 ELSE POk(a.pos, <<>>, <<>>))

\* the Column nodes of a Select get its FROM table as their next scope
Scoped(a, from, joined) ==
    IF a.ok
    THEN [ok |-> TRUE, pos |-> a.pos, tabs |-> a.tabs,
          cols |-> AddScope(a.cols, from, joined), from |-> from, joined |-> joined]
    ELSE PFail

\* the joins and the WHERE after the FROM operand fr
SelectJoins(t, sd, items, fr) ==
    IF ~fr.ok THEN PFail
    ELSE Scoped(SelectWhere(t, sd, JoinMore(t, sd, Then(items, fr))), fr.from,
                Kw(t, fr.pos) = "JOIN")

\* what follows the projections
SelectFrom(t, sd, items) ==
    IF ~items.ok THEN PFail
    ELSE IF Kw(t, items.pos) # "FROM" THEN Scoped(SelectWhere(t, sd, items), "", FALSE)
    ELSE SelectJoins(t, sd, items, ParseTableRef(t, items.pos + 1, sd))

\* SELECT items [FROM ref {JOIN ref [ON cond]}] [WHERE cond]; the nodes come
\* in the order of the Select's arguments: expressions, from, joins, where
ParseSelect(t, i, sd) ==
    IF Kw(t, i) # "SELECT" THEN PFail
    ELSE SelectFrom(t, sd, ParseItems(t, i + 1, sd + 1))

RECURSIVE ParseCTEs(_, _)

\* the CTEs after the CTE q
MoreCTEs(t, q) ==
    IF ~q.ok THEN PFail
    ELSE IF Tok(t, q.pos) # "," THEN q
    ELSE Then(q, ParseCTEs(t, q.pos + 1))

\* WITH name AS ( select ) {, name AS ( select )}: With, CTE, Select
ParseCTEs(t, i) ==
    IF ~(IsIdent(Tok(t, i)) /\ Kw(t, i + 1) = "AS" /\ Tok(t, i + 2) = "(") THEN PFail
    ELSE MoreCTEs(t, Closed(t, ParseSelect(t, i + 3, 3)))

\* the nodes of one depth, in order
AtDepth(nodes, d) ==
    LET Test(n) == n.depth = d IN SelectSeq(nodes, Test)

RECURSIVE ByDepth(_, _, _)
ByDepth(nodes, d, maxd) ==
    IF d > maxd THEN <<>> ELSE AtDepth(nodes, d) \o ByDepth(nodes, d + 1, maxd)

MaxDepth(nodes) ==
    IF nodes = <<>> THEN 0
    ELSE CHOOSE d \in {nodes[k].depth : k \in 1..Len(nodes)} :
             \A k \in 1..Len(nodes) : nodes[k].depth <= d

\* Expression.walk(): breadth first
Walk(nodes) == ByDepth(nodes, 0, MaxDepth(nodes))

StmtFail == [ok |-> FALSE, type |-> "", tabs |-> <<>>, cols |-> <<>>]

Stmt(type, tabs, cols) ==
    [ok |-> TRUE, type |-> type, tabs |-> Walk(tabs), cols |-> Walk(cols)]

\* the main query after the CTEs; the With is an argument of the main
\* Select, the last one, so the main Select encloses the CTE bodies
WithMain(t, ctes, main) ==
    IF main.ok /\ main.pos = Len(t) + 1
    THEN Stmt("Select", main.tabs \o ctes.tabs,
              main.cols \o AddScope(ctes.cols, main.from, main.joined))
    ELSE StmtFail

WithStatement(t, ctes) ==
    IF ~ctes.ok THEN StmtFail ELSE WithMain(t, ctes, ParseSelect(t, ctes.pos, 0))

\* the two Selects of a Union are one level deeper than a lone Select
UnionStatement(t, left, right) ==
    IF right.ok /\ right.pos = Len(t) + 1
    THEN Stmt("Union", left.tabs \o right.tabs, left.cols \o right.cols)
    ELSE StmtFail

SelectStatement(t, one) ==
    IF ~one.ok THEN StmtFail
    ELSE IF one.pos = Len(t) + 1 THEN Stmt("Select", one.tabs, one.cols)
    ELSE IF Kw(t, one.pos) # "UNION" THEN StmtFail
    ELSE UnionStatement(t, ParseSelect(t, 1, 1), ParseSelect(t, one.pos + 1, 1))

\* one chunk: the statement's class name and its Table and Column nodes in
\* walk order; an empty chunk parses to None
ParseStatement(t) ==
    IF t = <<>> THEN Stmt("NoneType", <<>>, <<>>)
    ELSE IF Kw(t, 1) = "WITH" THEN WithStatement(t, ParseCTEs(t, 2))
    ELSE IF Kw(t, 1) = "SELECT" THEN SelectStatement(t, ParseSelect(t, 1, 0))
    ELSE IF Kw(t, 1) = "COMMIT" /\ Len(t) = 1 THEN Stmt("Commit", <<>>, <<>>)
    ELSE IF Kw(t, 1) = "DROP" /\ Kw(t, 2) = "TABLE" /\ IsIdent(Tok(t, 3)) /\ Len(t) = 3
    THEN Stmt("Drop", <<TableNode(Tok(t, 3), "", "", 1)>>, <<>>)
    ELSE IF Kw(t, 1) = "DELETE" /\ Kw(t, 2) = "FROM" /\ IsIdent(Tok(t, 3)) /\ Len(t) = 3
    THEN Stmt("Delete", <<TableNode(Tok(t, 3), "", "", 1)>>, <<>>)
    ELSE StmtFail

\* the statements parsed from the chunks
Statements(st) ==
    IF \E k \in 1..Len(st) : ~st[k].ok
    THEN [outcome |-> "ParseError", stmts |-> <<>>]
    ELSE [outcome |-> "ok", stmts |-> st]

ParseChunks(ch) == Statements([k \in 1..Len(ch) |-> ParseStatement(ch[k])])

ParseTokens(tk) ==
    IF ~tk.ok THEN [outcome |-> "TokenError", stmts |-> <<>>]
    ELSE ParseChunks(Chunks(tk.toks, <<>>))

\* sqlglot.parse: outcome "ok" with the list of statements, "ParseError" or
\* "TokenError"
SqlglotParse(s) == ParseTokens(Tokenize(s))

(***************************************************************************)
(* Stages 4 to 8 of validate: extraction and the access-control decision.  *)
(***************************************************************************)
\* set(t.lower() for t in tables)
LowerSet(S) == {Lower(x) : x \in S}

\* {k.lower(): set(c.lower() for c in v) for k, v in columns.items()}
LowerDict(d) ==
    [k \in LowerSet(DOMAIN d) |->
        LowerSet(d[CHOOSE x \in DOMAIN d : Lower(x) = k])]

EmptyDict == [k \in {} |-> {}]

\* the names of the tables nodes[1..n], lower-cased
LowerNames(nodes, n) == {Lower(nodes[k].name) : k \in 1..n}

\* _extract_tables_info: one entry per lower-cased name, the first node of
\* each name, in walk order
RECURSIVE ExtractTablesFrom(_, _)
ExtractTablesFrom(nodes, k) ==
    IF k > Len(nodes) THEN <<>>
    ELSE IF Lower(nodes[k].name) \in LowerNames(nodes, k - 1)
         THEN ExtractTablesFrom(nodes, k + 1)
         ELSE <<[name |-> nodes[k].name, alias |-> nodes[k].alias,
                 schema |-> nodes[k].db]>> \o ExtractTablesFrom(nodes, k + 1)

ExtractTablesInfo(parsed) == ExtractTablesFrom(parsed.tabs, 1)

\* the loop "while current is not None": every enclosing Select whose FROM is
\* a plain table overwrites table_ref, so the outermost such Select decides
RECURSIVE LastPlainFrom(_, _)
LastPlainFrom(scopes, ref) ==
    IF scopes = <<>> THEN ref
    ELSE LastPlainFrom(Tail(scopes),
                       IF Head(scopes) # "" THEN Lower(Head(scopes)) ELSE ref)

\* table_ref of one Column node; "" stands for None
TableRef(col, tableNodes) ==
    LET up == LastPlainFrom(col.scopes, "")
    IN  IF up # "" THEN up
        ELSE IF Len(tableNodes) = 1 THEN Lower(tableNodes[1].name)
        ELSE ""

\* key = f"{table_ref or ''}.{col_name}".lower()
ColumnKey(col, tableNodes) == <<TableRef(col, tableNodes), Lower(col.name)>>

\* _extract_columns_info: one entry per key, in walk order
RECURSIVE ExtractColumnsFrom(_, _, _)
ExtractColumnsFrom(cols, tableNodes, k) ==
    IF k > Len(cols) THEN <<>>
    ELSE IF \E j \in 1..(k - 1) : ColumnKey(cols[j], tableNodes) = ColumnKey(cols[k], tableNodes)
         THEN ExtractColumnsFrom(cols, tableNodes, k + 1)
         ELSE <<[name |-> cols[k].name, table |-> TableRef(cols[k], tableNodes),
                 alias |-> ""]>> \o ExtractColumnsFrom(cols, tableNodes, k + 1)

ExtractColumnsInfo(parsed) == ExtractColumnsFrom(parsed.cols, parsed.tabs, 1)

\* the words of the alphabet that start with "pg_" / "information_schema"
PgPrefixed == {"pg_tables", "pg_catalog", "pg_password"}

InfoPrefixed == {"information_schema"}

\* _is_system_table
IsSystemTable(name) ==
    \/ Lower(name) \in PgPrefixed \cup InfoPrefixed
    \/ Lower(name) = "information_schema"

(***************************************************************************)
(* _contains_forbidden_cte: re.search, in the upper-cased text, of WITH,    *)
(* a name, AS, an opening parenthesis, two successive groups of            *)
(* characters other than the closing parenthesis, and the closing          *)
(* parenthesis.  The first group is greedy and takes everything up to the  *)
(* first closing parenthesis, which leaves the second group, the one the   *)
(* code reads as the CTE body, empty.                                      *)
(***************************************************************************)
DangerousCteWords == {"DROP", "DELETE", "INSERT", "UPDATE", "ALTER"}

\* positions i where WITH name AS ( ... ) matches
WithMatches(s) ==
    {i \in 1..Len(s) :
        /\ i + 3 <= Len(s)
        /\ Upper(s[i]) = "WITH"
        /\ IsWord(s[i + 1])
        /\ Upper(s[i + 2]) = "AS"
        /\ s[i + 3] = "("
        /\ IndexFrom(s, ")", i + 4) # 0}

\* group(2) of the leftmost match: what is left between the end of the greedy
\* class and the ")"
CteBodyGroup(s, i) ==
    LET close == IndexFrom(s, ")", i + 4)
        greedyEnd == close - 1
    IN  SubSeq(s, greedyEnd + 1, close - 1)

ContainsForbiddenCte(s) ==
    /\ WithMatches(s) # {}
    /\ LET i == CHOOSE m \in WithMatches(s) : \A n \in WithMatches(s) : m <= n
           body == CteBodyGroup(s, i)
       IN  \E k \in 1..Len(body) : Upper(body[k]) \in DangerousCteWords

(***************************************************************************)
(* The value of a validate call: the tuple (is_valid, error_message,       *)
(* details), or the exception that left it.  The message is its reason and *)
(* the name it carries; details is None (present = FALSE) or the two lists.*)
(***************************************************************************)
NoDetails == [present |-> FALSE, tables |-> <<>>, columns |-> <<>>]

Details(tables, columns) ==
    [present |-> TRUE, tables |-> tables, columns |-> columns]

Reject(reason, arg, details) ==
    [raised |-> FALSE, valid |-> FALSE, reason |-> reason, arg |-> arg,
     details |-> details]

Accept(details) ==
    [raised |-> FALSE, valid |-> TRUE, reason |-> "", arg |-> <<>>,
     details |-> details]

Raise(exc) ==
    [raised |-> TRUE, valid |-> FALSE, reason |-> exc, arg |-> <<>>,
     details |-> NoDetails]

\* a policy: the five fields of the validator
Policy(as, bt, bc, at, ac) ==
    [allowed_statements |-> as, blocked_tables |-> bt, blocked_columns |-> bc,
     allowed_tables |-> at, allowed_columns |-> ac]

\* "for table in tables: if table_name in self.blocked_tables": the first
\* blocked table, 0 if none
FirstBlockedTable(tables, bt) ==
    IF \E k \in 1..Len(tables) : Lower(tables[k].name) \in bt
    THEN CHOOSE k \in 1..Len(tables) :
             /\ Lower(tables[k].name) \in bt
             /\ \A j \in 1..(k - 1) : Lower(tables[j].name) \notin bt
    ELSE 0

\* a mistaken variant: the allow-list is consulted even when it is empty
AllowListAlwaysConsulted(tables, at) ==
    ~\E k \in 1..Len(tables) : Lower(tables[k].name) \in at

\* "if self.allowed_tables and not any(t in self.allowed_tables for t in tables)"
TableAllowListRejects(tables, at) ==
    /\ at # {}
    /\ ~\E k \in 1..Len(tables) : Lower(tables[k].name) \in at

\* the column loop's verdict on one column: "" when it passes
ColumnVerdict(col, p) ==
    IF /\ col.table # ""
       /\ col.table \in DOMAIN p.blocked_columns
       /\ Lower(col.name) \in p.blocked_columns[col.table]
    THEN "BlockedColumn"
    ELSE IF DOMAIN p.allowed_columns = {} THEN ""
    ELSE IF col.table # "" /\ col.table \in DOMAIN p.allowed_columns
         THEN IF Lower(col.name) \notin p.allowed_columns[col.table]
              THEN "UnauthorizedColumn" ELSE ""
    ELSE IF col.table = ""
         THEN IF \E t \in DOMAIN p.allowed_columns : Lower(col.name) \in p.allowed_columns[t]
              THEN "" ELSE "UnauthorizedColumn"
    ELSE ""

\* the first column the loop rejects, 0 if none
FirstRejectedColumn(columns, p) ==
    IF \E k \in 1..Len(columns) : ColumnVerdict(columns[k], p) # ""
    THEN CHOOSE k \in 1..Len(columns) :
             /\ ColumnVerdict(columns[k], p) # ""
             /\ \A j \in 1..(k - 1) : ColumnVerdict(columns[j], p) = ""
    ELSE 0

\* f"{col['table']}.{col['name']}" or col['name']
ColumnLabel(col) ==
    IF col.table # "" THEN <<col.table, col.name>> ELSE <<col.name>>

\* steps 5 to 8 of validate, on the single parsed statement
Decide(parsed, cleaned, p) ==
    LET tables == ExtractTablesInfo(parsed)
        columns == ExtractColumnsInfo(parsed)
        b == FirstBlockedTable(tables, p.blocked_tables)
        c == FirstRejectedColumn(columns, p)
    IN  IF b # 0
        THEN Reject("BlockedTable", <<tables[b].name>>, Details(tables, <<>>))
        ELSE IF TableAllowListRejects(tables, p.allowed_tables)
        THEN Reject("UnauthorizedTable", <<>>, Details(tables, <<>>))
        ELSE IF c # 0
        THEN Reject(ColumnVerdict(columns[c], p), ColumnLabel(columns[c]),
                    Details(tables, columns))
        ELSE IF \E k \in 1..Len(tables) : IsSystemTable(tables[k].name)
        THEN Reject("SystemSchemaAccess", <<>>, Details(tables, columns))
        ELSE IF ContainsForbiddenCte(cleaned)
        THEN Reject("ForbiddenCTEOperation", <<>>, Details(tables, columns))
        ELSE Accept(Details(tables, columns))

\* a mistaken variant: the details dict built at the top of validate is
\* returned when the statement count or type is refused
RejectWithEmptyDetails(reason, arg) == Reject(reason, arg, Details(<<>>, <<>>))

\* "return False, ..., None" of the statement-count and statement-type checks
RejectAfterParse(reason, arg) == Reject(reason, arg, NoDetails)

\* step 3 after the parse, and step 4: one statement, its type
CheckStatements(parse, cleaned, p) ==
    IF parse.outcome = "TokenError" THEN Raise("TokenError")
    ELSE IF parse.outcome = "ParseError" THEN Reject("SyntaxError", <<>>, NoDetails)
    ELSE IF Len(parse.stmts) # 1 THEN RejectAfterParse("MultiStatementError", <<>>)
    ELSE IF Upper(parse.stmts[1].type) \notin p.allowed_statements
    THEN RejectAfterParse("DisallowedStatementType", <<Upper(parse.stmts[1].type)>>)
    ELSE Decide(parse.stmts[1], cleaned, p)

\* step 3: the parse.  Only ParseError is caught.
CheckParsed(cleaned, p) == CheckStatements(SqlglotParse(cleaned), cleaned, p)

\* a mistaken variant: the parse and the statement count come before the
\* keyword scan
ParseBeforeKeywordScan(sql, p) ==
    LET cleaned == RemoveComments(sql)
        parsed == CheckParsed(cleaned, p)
    IN  IF parsed.reason \in {"SyntaxError", "MultiStatementError"} THEN parsed
        ELSE IF MatchesForbidden(cleaned)
        THEN Reject("ForbiddenKeyword", <<>>, NoDetails)
        ELSE parsed

\* steps 1 and 2, then the rest
Validate(sql, p) ==
    LET cleaned == RemoveComments(sql)
    IN  IF MatchesForbidden(cleaned)
        THEN Reject("ForbiddenKeyword", <<>>, NoDetails)
        ELSE CheckParsed(cleaned, p)

(***************************************************************************)
(* validate_explain and extract_tables.                                    *)
(***************************************************************************)
\* the parse of the text with the EXPLAIN prefix: its result is not read, a
\* ParseError is caught, any other exception leaves the call
ExplainParsed(r, parse) ==
    IF parse.outcome = "TokenError" THEN Raise("TokenError") ELSE Accept(r.details)

\* after the validate call: an invalid result is returned as it is
ExplainAfter(text, r) ==
    IF r.raised \/ ~r.valid THEN r
    ELSE ExplainParsed(r, SqlglotParse(<<"EXPLAIN">> \o text))

ValidateExplain(text, p) == ExplainAfter(text, Validate(text, p))

\* the orders in which a list can hold the elements of S
Orders(S) ==
    {f \in [1..Cardinality(S) -> S] : \A i, j \in 1..Cardinality(S) : f[i] = f[j] => i = j}

\* what extract_tables returns: a list of names
TableList(names) ==
    [raised |-> FALSE, valid |-> FALSE, reason |-> "tables", arg |-> names,
     details |-> NoDetails]

\* sqlglot.parse_one gives the first statement and raises ParseError when
\* there is none; only ParseError is caught
TablesOfParse(parse) ==
    IF parse.outcome = "TokenError" THEN {Raise("TokenError")}
    ELSE IF parse.outcome = "ParseError" \/ parse.stmts = <<>>
            \/ parse.stmts[1].type = "NoneType"
    THEN {TableList(<<>>)}
    ELSE {TableList(o) :
            o \in Orders({parse.stmts[1].tabs[k].name : k \in 1..Len(parse.stmts[1].tabs)})}

\* extract_tables: the results it can give on the raw text
ExtractTables(text) == TablesOfParse(SqlglotParse(text))

(***************************************************************************)
(* The query tool: generated SQL, its validation and its execution.        *)
(***************************************************************************)
\* sql.startswith("ERROR:")
IsAiError(text) == text # <<>> /\ text[1] = "ERROR:"

\* SET LOCAL statement_timeout = '<timeout>s'
TimeoutStatement == <<"SET", "LOCAL", "statement_timeout", "=", "'", "30s", "'">>

\* a response of the tool, with the statements that went to the database and
\* the validator methods the handler invoked on the way
Response(mode, status, text, note, sent, called) ==
    [mode |-> mode, status |-> status, sql |-> text, note |-> note, sent |-> sent,
     called |-> called]

\* _execute_and_validate: the timeout is set and the text is fetched
ExecuteAndValidate(text) ==
    Response("result", "success", text, "", <<TimeoutStatement, text>>, <<"validate">>)

\* steps 4 (after the call) to 6
AfterVerdict(is_valid, text, return_mode) ==
    IF ~is_valid THEN Response("sql", "error", text, "invalid", <<>>, <<"validate">>)
    ELSE IF return_mode = "sql" THEN Response("sql", "success", text, "", <<>>, <<"validate">>)
    ELSE ExecuteAndValidate(text)

\* the tuple validate returns
ResultTuple(r) == <<r.valid, r.reason, r.details>>

\* the names the tuple is unpacked into
UnpackTargets == <<"is_valid", "error_msg">>

\* a variant of the unpacking that takes the tuple as it comes and goes on to
\* the execution without reading the verdict
UnpackAndRun(r, text, return_mode) == ExecuteAndValidate(text)

\* is_valid, error_msg = validator.validate(sql): a tuple of another length
\* raises ValueError, which the handler's except clause turns into a response
Unpack(r, text, return_mode) ==
    IF Len(ResultTuple(r)) # Len(UnpackTargets)
    THEN Response("result", "error", <<>>, "ValueError", <<>>, <<"validate">>)
    ELSE AfterVerdict(r.valid, text, return_mode)

\* an exception of validate is caught by the same clause
AfterValidate(r, text, return_mode) ==
    IF r.raised THEN Response("result", "error", <<>>, r.reason, <<>>, <<"validate">>)
    ELSE Unpack(r, text, return_mode)

\* the handler from step 3 on, for the text the AI client generated
\* a variant of the handler that validates whatever the AI client returned
QueryToolValidatingFirst(text, return_mode, p) ==
    AfterValidate(Validate(text, p), text, return_mode)

QueryTool(text, return_mode, p) ==
    IF IsAiError(text) THEN Response("sql", "error", <<>>, "AiError", <<>>, <<>>)
    ELSE AfterValidate(Validate(text, p), text, return_mode)

(***************************************************************************)
(* The explain tool: generated SQL, its validation and its tables.         *)
(***************************************************************************)
\* the response built from the verdict and the tables: "success" if is_valid
\* else "warning"
ExplainResponse(r, text, tables) ==
    IF tables.raised
    THEN Response("explain", "error", <<>>, tables.reason, <<>>, <<"validate", "extract_tables">>)
    ELSE Response("explain", IF r.valid THEN "success" ELSE "warning", text,
                  IF r.valid THEN "" ELSE "invalid", <<>>, <<"validate", "extract_tables">>)

\* is_valid, error_msg, _ = validator.validate(sql), then
\* tables = validator.extract_tables(sql); an exception of either is caught by
\* the handler's except clause
ExplainAfterValidate(r, text, tables) ==
    IF r.raised THEN Response("explain", "error", <<>>, r.reason, <<>>, <<"validate">>)
    ELSE ExplainResponse(r, text, tables)

\* the handler from the generated text on; tables is what extract_tables
\* gives for the text when it is called
ExplainTool(text, p, tables) ==
    IF IsAiError(text) THEN Response("explain", "error", <<>>, "AiError", <<>>, <<>>)
    ELSE ExplainAfterValidate(Validate(text, p), text, tables)

(***************************************************************************)
(* SlidingWindowRateLimiter.                                               *)
(***************************************************************************)
\* the clients and the last reading of the clock
Clients == {"client1", "client2"}

MaxTime == 4

\* no block recorded for a client
NotBlocked == 0 - 1

\* SlidingWindowRateLimiter.__init__
NewLimiter(max_requests, window_seconds, block_duration) ==
    [max_requests |-> max_requests, window_seconds |-> window_seconds,
     block_duration |-> block_duration,
     requests |-> [c \in Clients |-> <<>>],
     blocked |-> [c \in Clients |-> NotBlocked]]

\* a variant of the clean-up that also drops the timestamp on the edge of the
\* window
RECURSIVE PopExpiredInclusive(_, _)
PopExpiredInclusive(q, window_start) ==
    IF q # <<>> /\ Head(q) <= window_start
    THEN PopExpiredInclusive(Tail(q), window_start) ELSE q

\* while client_requests and client_requests[0] < window_start: popleft()
RECURSIVE PopExpired(_, _)
PopExpired(q, window_start) ==
    IF q # <<>> /\ Head(q) < window_start THEN PopExpired(Tail(q), window_start) ELSE q

\* retry_after = None
NoRetryAfter == 0 - 1

\* RateLimitResult, with the client and the time of the call
Result(c, t, allowed, remaining, retry_after) ==
    [client |-> c, time |-> t, allowed |-> allowed, remaining |-> remaining,
     retry_after |-> retry_after]

\* the client is blocked at time t
BlockedAt(l, c, t) == l.blocked[c] # NotBlocked /\ t < l.blocked[c]

\* the block of the client, if it has expired, is removed
Unblocked(l, c, t) ==
    IF l.blocked[c] # NotBlocked /\ ~(t < l.blocked[c])
    THEN [l EXCEPT !.blocked[c] = NotBlocked] ELSE l

\* the limiter after the clean-up of the client's deque
Swept(l, c, t) ==
    [l EXCEPT !.requests[c] = PopExpired(l.requests[c], t - l.window_seconds)]

\* the request is recorded
Recorded(l, c, t) == [l EXCEPT !.requests[c] = Append(l.requests[c], t)]

\* the limit is exceeded: the client is blocked when a block duration is set
Exceeded(l, c, t) ==
    IF l.block_duration > 0 THEN [l EXCEPT !.blocked[c] = t + l.block_duration] ELSE l

\* the limiter after is_allowed(c) at time t, from the clean-up on
AfterSweep(l, c, t) ==
    IF Len(l.requests[c]) < l.max_requests THEN Recorded(l, c, t) ELSE Exceeded(l, c, t)

\* the result of is_allowed(c) at time t, from the clean-up on
ResultAfterSweep(l, c, t) ==
    IF Len(l.requests[c]) < l.max_requests
    THEN Result(c, t, TRUE, l.max_requests - Len(l.requests[c]) - 1, NoRetryAfter)
    ELSE Result(c, t, FALSE, 0, IF l.block_duration > 0 THEN l.block_duration ELSE NoRetryAfter)

\* a variant of is_allowed in which the call of a blocked client starts the
\* block anew
LimiterAfterExtending(l, c, t) ==
    IF BlockedAt(l, c, t) THEN [l EXCEPT !.blocked[c] = t + l.block_duration]
    ELSE AfterSweep(Swept(Unblocked(l, c, t), c, t), c, t)

\* is_allowed: the limiter it leaves
LimiterAfter(l, c, t) ==
    IF BlockedAt(l, c, t) THEN l ELSE AfterSweep(Swept(Unblocked(l, c, t), c, t), c, t)

\* is_allowed: the result it returns
IsAllowedResult(l, c, t) ==
    IF BlockedAt(l, c, t) THEN Result(c, t, FALSE, 0, l.blocked[c] - t)
    ELSE ResultAfterSweep(Swept(Unblocked(l, c, t), c, t), c, t)

\* reset(client_id)
ResetClient(l, c) == [l EXCEPT !.requests[c] = <<>>, !.blocked[c] = NotBlocked]

\* reset(): self._requests.clear(), self._blocked.clear()
ResetAll(l) ==
    [l EXCEPT !.requests = [c \in Clients |-> <<>>], !.blocked = [c \in Clients |-> NotBlocked]]

\* the last call on the limiter: the result of is_allowed with the limiter as
\* the call found and left it, or the client that reset was called for;
\* after_reset tells that the client's reset came right before the call
Call(result, found, left, after_reset) ==
    [client |-> result.client, time |-> result.time, allowed |-> result.allowed,
     remaining |-> result.remaining, retry_after |-> result.retry_after,
     found |-> found, left |-> left, after_reset |-> after_reset, reset |-> ""]

NoResult ==
    Call(Result("", 0, FALSE, 0, NoRetryAfter), NewLimiter(100, 60, 0), NewLimiter(100, 60, 0),
         FALSE)

(***************************************************************************)
(* CircuitBreaker.                                                         *)
(***************************************************************************)
\* self._last_failure_time = None
None == 0 - 1

CircuitBreakerConfig(failure_threshold, success_threshold, timeout_seconds, sampling_window, volume_threshold) ==
    [failure_threshold |-> failure_threshold, success_threshold |-> success_threshold,
     timeout_seconds |-> timeout_seconds, sampling_window |-> sampling_window,
     volume_threshold |-> volume_threshold]

\* CircuitBreaker.__init__
NewBreaker(config) ==
    [config |-> config, state |-> "closed", failure_count |-> 0, success_count |-> 0,
     last_failure_time |-> None, recent_results |-> <<>>]

\* the state property: an open breaker whose timeout has expired becomes
\* half-open when its state is read
StateRead(b, t) ==
    IF b.state = "open"
       /\ (b.last_failure_time = None \/ t - b.last_failure_time >= b.config.timeout_seconds)
    THEN [b EXCEPT !.state = "half_open"]
    ELSE b

\* _trim_recent_results
RECURSIVE TrimRecent(_, _)
TrimRecent(results, sampling_window) ==
    IF Len(results) > sampling_window THEN TrimRecent(Tail(results), sampling_window)
    ELSE results

\* a variant of _should_open without the volume threshold
ShouldOpenOnFailures(b) ==
    Cardinality({k \in 1..Len(b.recent_results) : ~b.recent_results[k]})
        >= b.config.failure_threshold

\* _should_open
ShouldOpen(b) ==
    /\ ~(Len(b.recent_results) < b.config.volume_threshold)
    /\ Cardinality({k \in 1..Len(b.recent_results) : ~b.recent_results[k]})
          >= b.config.failure_threshold

\* a variant of the success count that counts in every state
SuccessCountedAnywhere(b) ==
    IF b.success_count + 1 >= b.config.success_threshold /\ b.state = "half_open"
    THEN [b EXCEPT !.state = "closed", !.failure_count = 0, !.success_count = 0,
                   !.recent_results = <<>>]
    ELSE [b EXCEPT !.success_count = b.success_count + 1]

\* _on_success, after the result is appended and the window trimmed
SuccessCounted(b) ==
    IF b.state # "half_open" THEN b
    ELSE IF b.success_count + 1 >= b.config.success_threshold
    THEN [b EXCEPT !.state = "closed", !.failure_count = 0, !.success_count = 0,
                   !.recent_results = <<>>]
    ELSE [b EXCEPT !.success_count = b.success_count + 1]

\* _on_success
OnSuccess(b) ==
    SuccessCounted([b EXCEPT !.recent_results =
                        TrimRecent(Append(b.recent_results, TRUE), b.config.sampling_window)])

\* _on_failure, after the result is appended and counted
FailureCounted(b) ==
    IF b.state = "half_open" THEN [b EXCEPT !.state = "open", !.success_count = 0]
    ELSE IF ShouldOpen(b) THEN [b EXCEPT !.state = "open"]
    ELSE b

\* _on_failure
OnFailure(b, t) ==
    FailureCounted([b EXCEPT !.recent_results =
                        TrimRecent(Append(b.recent_results, FALSE), b.config.sampling_window),
                    !.failure_count = b.failure_count + 1,
                    !.last_failure_time = t])

\* a variant of the rejection that counts the rejected call as a failure
RejectedCounted(b, t, succeeds) ==
    IF b.state = "open" \/ ~succeeds THEN OnFailure(b, t) ELSE OnSuccess(b)

\* the breaker after the guard of _execute_sync / _execute_async has read
\* the state b: the call is rejected, or the function runs and its outcome
\* is noted
Guarded(b, t, succeeds) ==
    IF b.state = "open" THEN b
    ELSE IF succeeds THEN OnSuccess(b) ELSE OnFailure(b, t)

\* _execute_sync / _execute_async: the breaker they leave
Executed(b, t, succeeds) == Guarded(StateRead(b, t), t, succeeds)

\* the call through the breaker, as it ended
CallRecord(b, t, succeeds) ==
    [made |-> TRUE, found |-> b, left |-> Executed(b, t, succeeds),
     read |-> StateRead(b, t).state,
     invoked |-> StateRead(b, t).state # "open",
     outcome |-> IF StateRead(b, t).state = "open" THEN "CircuitOpenError"
                 ELSE IF succeeds THEN "returned" ELSE "raised"]

\* the notes on the OPEN state of a breaker that was never open
NeverOpened ==
    [at |-> None, checked_at |-> None, stayed |-> None, streak |-> 0, closed_after |-> None,
     result |-> "", found |-> "", left |-> "", left_count |-> 0, cleared |-> FALSE]

\* the notes o after a step at time t that found the breaker b and left b2;
\* check tells whether the step read the state property
OpenedAfter(o, b, b2, t, check) ==
    [o EXCEPT
     !.at = IF b2.state # "open" THEN None ELSE IF b.state = "open" THEN o.at ELSE t,
     !.checked_at = IF check THEN t ELSE o.checked_at,
     !.stayed = IF b.state = "open" /\ b2.state # "open" THEN t - o.at ELSE o.stayed]

\* the notes o after a result ("success" or "failure") was recorded on the
\* breaker b, which left b2: streak counts the successes recorded in
\* HALF_OPEN since the breaker last entered it, closed_after is the streak
\* that last closed the breaker
Noted(o, b, b2, result) ==
    [o EXCEPT
     !.streak = IF b.state = "half_open" /\ b2.state = "half_open" /\ result = "success"
                THEN o.streak + 1
                ELSE IF b2.state = "half_open" THEN o.streak ELSE 0,
     !.closed_after = IF b.state # "closed" /\ b2.state = "closed" THEN o.streak + 1
                      ELSE o.closed_after,
     !.result = result, !.found = b.state, !.left = b2.state,
     !.left_count = b2.success_count,
     !.cleared = (b2.failure_count = 0 /\ b2.success_count = 0 /\ b2.recent_results = <<>>)]

NoCall ==
    [made |-> FALSE, found |-> NewBreaker(CircuitBreakerConfig(5, 3, 60, 10, 5)),
     left |-> NewBreaker(CircuitBreakerConfig(5, 3, 60, 10, 5)),
     read |-> "closed", invoked |-> FALSE, outcome |-> ""]

(***************************************************************************)
(* MetricsCollector.                                                       *)
(***************************************************************************)
\* threading.Lock(): free, or held by a thread
Free == "free"

\* MetricsCollector.__init__
NewCollector(window_seconds) ==
    [window_seconds |-> window_seconds, lock |-> Free, requests |-> <<>>]

\* RequestMetrics
RequestMetrics(operation, success, timestamp) ==
    [operation |-> operation, success |-> success, timestamp |-> timestamp]

\* while self._requests and self._requests[0].timestamp < window_start: popleft
RECURSIVE DropOld(_, _)
DropOld(requests, window_start) ==
    IF requests # <<>> /\ requests[1].timestamp < window_start
    THEN DropOld(Tail(requests), window_start)
    ELSE requests

\* record_request, with the lock taken and given back
RequestRecorded(c, operation, success, t) ==
    [c EXCEPT !.requests = Append(DropOld(c.requests, t - c.window_seconds),
                                  RequestMetrics(operation, success, t))]

\* relevant = [r for r in self._requests if r.operation == operation and
\* r.timestamp >= window_start]
Relevant(c, operation, t) ==
    {k \in 1..Len(c.requests) :
        /\ c.requests[k].operation = operation
        /\ c.requests[k].timestamp >= t - c.window_seconds}

\* MetricSummary of the relevant requests
MetricSummary(c, operation, t) ==
    [operation |-> operation, count |-> Cardinality(Relevant(c, operation, t)),
     success_count |-> Cardinality({k \in Relevant(c, operation, t) : c.requests[k].success})]

\* get_operation_summary under the lock: the summaries it returns, none when
\* nothing is relevant
OperationSummary(c, operation, t) ==
    IF Relevant(c, operation, t) = {} THEN {} ELSE {MetricSummary(c, operation, t)}

\* operations = set(r.operation for r in self._requests)
OperationsOf(c) == {c.requests[k].operation : k \in 1..Len(c.requests)}

\* a call of get_all_summaries: where it stands, the operations it still has
\* to summarise, and the dictionary it builds
Summaries(pc, operations, result) == [pc |-> pc, operations |-> operations, result |-> result]

NoSummaries == Summaries("idle", {}, {})

(***************************************************************************)
(* SchemaService.                                                          *)
(***************************************************************************)
Databases == {"default", "analytics", "sales"}

\* no SchemaInfo
NoInfo == [database |-> "", fetched_at |-> None]

\* the SchemaInfo fetched for a database at time t
SchemaInfo(database, t) == [database |-> database, fetched_at |-> t]

\* self._cache.clear(): the cache holds nothing for any database
EmptyCache == [d \in Databases |-> NoInfo]

\* SchemaService.__init__
NewSchemaService(cache_ttl) ==
    [cache_ttl |-> cache_ttl, cache |-> EmptyCache, cache_time |-> None]

\* _is_cache_valid
IsCacheValid(s, t) == s.cache_time # None /\ t - s.cache_time < s.cache_ttl

\* clear_cache
ClearCache(s) == [s EXCEPT !.cache = EmptyCache, !.cache_time = None]

\* the entry get_schema_info returns from the cache, NoInfo when it goes on
\* to load: the entry of the database, or else the one of "default"
FromCache(s, database, force_refresh, t) ==
    IF force_refresh \/ ~IsCacheValid(s, t) THEN NoInfo
    ELSE IF s.cache[database] # NoInfo THEN s.cache[database]
    ELSE s.cache["default"]

\* the service after the load from the database
Loaded(s, database, t, fetched) ==
    IF fetched THEN [s EXCEPT !.cache[database] = SchemaInfo(database, t), !.cache_time = t]
    ELSE ClearCache(s)

\* get_schema_info: the service it leaves
SchemaServiceAfter(s, database, force_refresh, t, fetched) ==
    IF FromCache(s, database, force_refresh, t) # NoInfo THEN s
    ELSE Loaded(s, database, t, fetched)

\* a call of get_schema_info as it ended: what it returned or that it
\* raised, whether the answer came from the cache, and the service it left
Served(s, database, force_refresh, t, fetched) ==
    [made |-> TRUE, database |-> database, at |-> t,
     cached |-> FromCache(s, database, force_refresh, t) # NoInfo,
     raised |-> FromCache(s, database, force_refresh, t) = NoInfo /\ ~fetched,
     info |-> IF FromCache(s, database, force_refresh, t) # NoInfo
              THEN FromCache(s, database, force_refresh, t)
              ELSE IF fetched THEN SchemaInfo(database, t) ELSE NoInfo,
     left |-> SchemaServiceAfter(s, database, force_refresh, t, fetched)]

\* no call of get_schema_info has ended
NotServed ==
    [made |-> FALSE, database |-> "", at |-> None, cached |-> FALSE, raised |-> FALSE,
     info |-> NoInfo, left |-> NewSchemaService(60)]

(***************************************************************************)
(* with_retry.                                                             *)
(***************************************************************************)
\* no exception, no value
Nothing == [kind |-> "", at |-> 0]

\* with_retry(max_attempts, retry_on=...) around a function, before a call:
\* pc is where the wrapper stands, attempt the loop variable
NewRetry(max_attempts, retry_on) ==
    [max_attempts |-> max_attempts, retry_on |-> retry_on, pc |-> "idle",
     attempt |-> 0, last_exception |-> Nothing, returned |-> Nothing, raised |-> Nothing]

\* an outcome of the wrapped function at its k-th invocation: a value it
\* returns or an exception it raises
Outcome(kind, k) == [kind |-> kind, at |-> k]

Values == {"rows"}

\* a variant of the except clause that catches every exception
CaughtAlways(r, exc) == exc.kind = exc.kind

\* except retry_on as e: subclasses of Exception are caught by (Exception,)
Caught(r, exc) == exc.kind \in r.retry_on \/ "Exception" \in r.retry_on

\* a variant of the test for the last attempt that gives up one attempt early
LastAttemptEarly(r) == r.attempt >= r.max_attempts - 2

\* if attempt == max_attempts - 1
LastAttempt(r) == r.attempt = r.max_attempts - 1

\* the wrapper after an invocation that raised a caught exception
AfterCaught(r, exc) ==
    IF LastAttempt(r) THEN [r EXCEPT !.last_exception = exc, !.pc = "raised", !.raised = exc]
    ELSE [r EXCEPT !.last_exception = exc, !.pc = "sleep"]

\* the wrapper after an invocation of the wrapped function
AfterInvocation(r, o) ==
    IF o.kind \in Values THEN [r EXCEPT !.pc = "returned", !.returned = o]
    ELSE IF Caught(r, o) THEN AfterCaught(r, o)
    ELSE [r EXCEPT !.pc = "raised", !.raised = o]

\* the wrapper after the sleep: the next turn of the loop, or, when the
\* range is used up, raise last_exception
AfterSleep(r) ==
    IF r.attempt + 1 < r.max_attempts THEN [r EXCEPT !.attempt = r.attempt + 1, !.pc = "try"]
    ELSE [r EXCEPT !.pc = "raised", !.raised = r.last_exception]

\* the wrapper is entered: for attempt in range(max_attempts)
Entered(r) ==
    IF 0 < r.max_attempts
    THEN [NewRetry(r.max_attempts, r.retry_on) EXCEPT !.pc = "try"]
    ELSE [NewRetry(r.max_attempts, r.retry_on) EXCEPT !.pc = "raised"]

(***************************************************************************)
(* Policy setters and the constructor.                                     *)
(***************************************************************************)
\* self.allowed_statements = allowed_statements or self.ALLOWED_STATEMENTS
InitAllowedStatements(arg) == IF arg = {} THEN {"SELECT"} ELSE arg

\* a mistaken variant: the new names are merged into the old set
MergedBlockedTables(old, tables) == old \cup LowerSet(tables)

\* set_blocked_tables / __init__: self.blocked_tables = set(t.lower() for t in tables)
NewBlockedTables(old, tables) == LowerSet(tables)

\* set_allowed_tables / __init__
NewAllowedTables(old, tables) == LowerSet(tables)

\* set_blocked_columns / __init__
NewBlockedColumns(old, columns) == LowerDict(columns)

\* set_allowed_columns / __init__
NewAllowedColumns(old, columns) == LowerDict(columns)

(***************************************************************************)
(* The SQL texts of the requests.                                          *)
(***************************************************************************)
\* upper bound on the statements appended after a first statement
MaxExtra == 1

Sel(items, ref) == <<"SELECT">> \o items \o <<"FROM">> \o ref

Items == {<<"*">>, <<"id">>, <<"password">>, <<"id", ",", "Password">>}

TableRefs ==
    {<<"users">>, <<"Users">>, <<"users", "u">>, <<"orders">>, <<"pg_tables">>,
     <<"information_schema", ".", "tables">>, <<"pg_catalog", ".", "pg_tables">>}

SimpleSelects == {Sel(i, r) : i \in Items, r \in TableRefs}

JoinItems == {<<"*">>, <<"id">>, <<"password">>, <<"o", ".", "password">>}

JoinPairs ==
    {<<<<"users", "u">>, <<"orders", "o">>>>,
     <<<<"orders", "o">>, <<"users", "u">>>>,
     <<<<"users", "u">>, <<"pg_tables", "o">>>>,
     <<<<"orders", "o">>, <<"information_schema", ".", "tables", "t">>>>}

JoinSelects ==
    {Sel(i, jp[1]) \o <<"JOIN">> \o jp[2] \o <<"ON", "u", ".", "id", "=", "o", ".", "id">> :
        i \in JoinItems, jp \in JoinPairs}

SubqueryPairs ==
    {<<"users", "orders">>, <<"orders", "users">>, <<"orders", "pg_tables">>}

SubquerySelects ==
    {Sel(<<"id">>, <<sp[1]>>) \o <<"WHERE", "id", "IN", "(">> \o Sel(i, <<sp[2]>>) \o <<")">> :
        i \in {<<"id">>, <<"password">>}, sp \in SubqueryPairs}

CteSelects ==
    {<<"WITH", "x", "AS", "(">> \o Sel(i, r) \o <<")">> \o Sel(<<"*">>, <<"x">>) :
        i \in {<<"*">>, <<"password">>}, r \in {<<"users">>, <<"Orders">>}}

OtherStatements ==
    {<<>>,
     <<"COMMIT">>,
     <<"SELECT", "1">>,
     <<"SELECT", "FROM">>,
     <<"SELECT", "'", "x">>,
     <<"SELECT", "'", "drop", "'", "FROM", "orders">>,
     <<"SELECT", "vacuum", "FROM", "orders">>,
     <<"SELECT", "u", ".", "*", "FROM", "users", "u">>,
     <<"DROP", "TABLE", "users">>,
     <<"drop", "TABLE", "users">>,
     <<"DELETE", "FROM", "users">>,
     <<"SELECT", "1", "--", "/*", "NL", "FROM", "users", "--", "*/">>,
     <<"SELECT", "1", "--", "/*", "NL", "'", "*/">>,
     <<"WITH", "x", "AS", "(", "SELECT", "*", "FROM", "users", ")", "DROP", "TABLE", "users">>,
     <<"WITH", "a", "AS", "(", "SELECT", "1", ")", ",", "b", "AS", "(", "SELECT", "*",
       "FROM", "users", ")", "SELECT", "*", "FROM", "a">>,
     <<"WITH", "x", "AS", "(", "DELETE", "FROM", "users", ")", "SELECT", "*", "FROM", "x">>,
     <<"WITH", "a", "AS", "(", "SELECT", "1", ")", ",", "b", "AS", "(", "drop", "TABLE",
       "users", ")", "SELECT", "*", "FROM", "a">>,
     Sel(<<"id">>, <<"(">> \o Sel(<<"id">>, <<"users">>) \o <<"JOIN", "orders", ")", "s">>),
     Sel(<<"*">>, <<"orders">>) \o <<"UNION">> \o Sel(<<"*">>, <<"users">>),
     Sel(<<"*">>, <<"users">>) \o <<"UNION">> \o Sel(<<"id">>, <<"information_schema", ".", "tables">>)}

\* what an attacker appends or hides
Payloads == {<<"DROP", "TABLE", "users">>, <<"SELECT", "*", "FROM", "users">>}

\* k statements, each after a semicolon
RECURSIVE Appended(_)
Appended(k) ==
    IF k = 0 THEN {<<>>}
    ELSE {a \o <<";">> \o pl : a \in Appended(k - 1), pl \in Payloads}

AppendedUpTo(n) == UNION {Appended(k) : k \in 1..n}

Carriers == {Sel(<<"*">>, <<"orders">>), Sel(<<"id">>, <<"users">>)}

\* a carrier statement with statements appended, or with a payload in or
\* behind comment delimiters, quotes and line breaks
Decorated ==
    UNION {
        {c \o <<";">>, c \o <<";", ";">>, c \o <<"NL">>, <<"NL">> \o c}
        \cup {c \o a : a \in AppendedUpTo(MaxExtra)}
        \cup {c \o a \o <<";">> : a \in AppendedUpTo(MaxExtra)}
        \cup UNION {
            {c \o <<"/*">> \o pl \o <<"*/">>,
             c \o <<"/*", ";">> \o pl \o <<";", "*/">>,
             c \o <<"--">> \o pl,
             c \o <<"--", ";">> \o pl \o <<"NL">>,
             c \o <<"--", "NL", ";">> \o pl,
             c \o <<"/*">> \o pl,
             c \o <<"--", "/*", "NL", ";">> \o pl \o <<";", "--", "*/">>,
             c \o <<"/*", "--", "*/", ";">> \o pl,
             <<"SELECT", "'", "--", "'", ";">> \o pl \o <<";", "SELECT", "'", "NL", "'", ",">>
                 \o Tail(c),
             <<"SELECT", "'", "/*", "'", ";">> \o pl \o <<";", "SELECT", "'", "*/", "'", ",">>
                 \o Tail(c)} : pl \in Payloads}
        : c \in Carriers}

SqlTexts ==
    SimpleSelects \cup JoinSelects \cup SubquerySelects \cup CteSelects
    \cup OtherStatements \cup Decorated

\* the arguments of the constructor and of the setters
AllowedStatementsArgs == {{}, {"SELECT", "UNION"}}

BlockedTablesArgs == {{}, {"users"}, {"USERS", "orders"}}

AllowedTablesArgs == {{}, {"Users"}, {"users", "pg_tables", "tables"}}

BlockedColumnsArgs == {EmptyDict, [t \in {"Users"} |-> {"Password"}]}

AllowedColumnsArgs == {EmptyDict, [t \in {"users"} |-> {"id"}]}

(***************************************************************************)
(* The validator as a state machine: its five policy fields, the request   *)
(* text at hand, the last call made and what it returned.                  *)
(***************************************************************************)
VARIABLES allowed_statements, blocked_tables, blocked_columns, allowed_tables,
          allowed_columns, sql, last_op, ret,
          vpc, vi, frame, seen, nupd, first, tool

\* vpc and vi are the position of a validate call in flight (vpc = "idle"
\* when none is) and the index of its loop, frame its local variables; seen
\* holds the policies that were in force at some moment of that call, nupd
\* the setter calls made during it; first is the first validate call made
\* since the policy was last set: its text, the policy it ran under, what it
\* returned and whether a call of another kind followed it; tool is what the
\* query tool did with its last request

\* The rate limiter: limiter is the SlidingWindowRateLimiter object, now the
\* clock that time.time() reads, rl the last RateLimitResult with the client
\* and the time of its call, granted the timestamps of the calls answered
\* allowed = true, per client
VARIABLES limiter, now, rl, granted

limiting == <<limiter, rl, granted>>

\* The circuit breaker: breaker is the CircuitBreaker object with its
\* configuration, cb the last call through it: the breaker as the call found
\* it and as it left it, the state the call read, whether the wrapped function was invoked and
\* how the call ended
VARIABLES breaker, cb

\* pending counts the calls that passed the breaker's guard and whose wrapped
\* function has not finished; opened notes when the breaker entered OPEN,
\* when its state was last checked, and how long it had been OPEN when it
\* last left OPEN other than by reset
VARIABLES pending, opened

breaking == <<breaker, cb, pending, opened>>

\* with_retry: retry is the decorated function's call with the decorator's
\* arguments and the wrapper's locals, attempts the outcomes of the
\* invocations of the wrapped function during that call
VARIABLES retry, attempts

retrying == <<retry, attempts>>

\* MetricsCollector: collector is the collector's lock and its deque of
\* requests, summaries a call of get_all_summaries on its way
VARIABLES collector, summaries

measuring == <<collector, summaries>>

\* SchemaService: schema is the service's cache, served the last call of
\* get_schema_info as it ended
VARIABLES schema, served

caching == <<schema, served>>

\* the services around the validator
services == <<now, limiting, breaking, retrying, measuring, caching>>

\* the validator, its callers and the bookkeeping of its calls
validation ==
    <<allowed_statements, blocked_tables, blocked_columns, allowed_tables,
      allowed_columns, sql, last_op, ret, vpc, vi, frame, seen, nupd, first, tool>>

vars == <<validation, services>>

call == <<vpc, vi, frame, seen, nupd, tool, services>>

\* no call in flight: no locals
NoFrame == [cleaned_sql |-> <<>>, parsed |-> StmtFail, tables |-> <<>>, columns |-> <<>>]

\* the policy as the fields hold it
CurrentPolicy ==
    Policy(allowed_statements, blocked_tables, blocked_columns, allowed_tables,
           allowed_columns)

\* what a call that returns None leaves as its value
ReturnedNone ==
    [raised |-> FALSE, valid |-> FALSE, reason |-> "None", arg |-> <<>>,
     details |-> NoDetails]

Op(name, arg) == [op |-> name, arg |-> arg]

\* the query tool has served no request
NoRequest ==
    [mode |-> "", status |-> "", sql |-> <<>>, note |-> "", sent |-> <<>>, called |-> <<>>]

\* no validate call made since the policy was last set
NoFirst ==
    [set |-> FALSE, sql |-> <<>>, policy |-> {}, ret |-> ReturnedNone, later |-> FALSE]

\* the services as their constructors' defaults leave them
LimiterIdle ==
    /\ limiter = NewLimiter(100, 60, 0)
    /\ rl = NoResult
    /\ granted = [c \in Clients |-> <<>>]

BreakerIdle ==
    /\ breaker = NewBreaker(CircuitBreakerConfig(5, 3, 60, 10, 5))
    /\ cb = NoCall
    /\ pending = 0
    /\ opened = NeverOpened

RetryIdle ==
    /\ retry = NewRetry(3, {"Exception"})
    /\ attempts = <<>>

MetricsIdle ==
    /\ collector = NewCollector(60)
    /\ summaries = NoSummaries

CacheIdle ==
    /\ schema = NewSchemaService(60)
    /\ served = NotServed

InitServices ==
    /\ now = 0
    /\ LimiterIdle
    /\ BreakerIdle
    /\ RetryIdle
    /\ MetricsIdle
    /\ CacheIdle

\* no call of the validator or of the query tool has been made
NoCallYet ==
    /\ last_op = Op("__init__", {})
    /\ ret = ReturnedNone
    /\ vpc = "idle"
    /\ vi = 0
    /\ frame = NoFrame
    /\ seen = {}
    /\ nupd = 0
    /\ first = NoFirst
    /\ tool = NoRequest

\* SQLValidator(): the default policy, and no text at hand
ValidatorAtRest ==
    /\ allowed_statements = InitAllowedStatements({})
    /\ blocked_tables = {}
    /\ blocked_columns = EmptyDict
    /\ allowed_tables = {}
    /\ allowed_columns = EmptyDict
    /\ sql = <<>>
    /\ NoCallYet

\* SQLValidator.__init__
Init ==
    /\ \E a \in AllowedStatementsArgs : allowed_statements = InitAllowedStatements(a)
    /\ \E t \in BlockedTablesArgs : blocked_tables = NewBlockedTables({}, t)
    /\ \E c \in BlockedColumnsArgs : blocked_columns = NewBlockedColumns(EmptyDict, c)
    /\ \E t \in AllowedTablesArgs : allowed_tables = NewAllowedTables({}, t)
    /\ \E c \in AllowedColumnsArgs : allowed_columns = NewAllowedColumns(EmptyDict, c)
    /\ sql \in SqlTexts
    /\ NoCallYet
    /\ InitServices

\* a validate_explain or extract_tables call after the remembered one
Later == first' = IF first.set THEN [first EXCEPT !.later = TRUE] ELSE first

\* the first call is remembered
Remember(r) ==
    first' = IF first.set THEN first
             ELSE [set |-> TRUE, sql |-> sql, policy |-> CurrentPolicy, ret |-> r,
                   later |-> FALSE]

\* the calls that read the policy and the text
ReadingOps == {"validate", "validate_explain", "extract_tables"}

\* a mistaken variant of validate(sql): the validator keeps the value of the
\* call before and returns it again
ValidateCallKeepingVerdict ==
    /\ ret' = IF last_op.op \in ReadingOps THEN ret ELSE Validate(sql, CurrentPolicy)
    /\ Remember(IF last_op.op \in ReadingOps THEN ret ELSE Validate(sql, CurrentPolicy))
    /\ last_op' = Op("validate", {})
    /\ UNCHANGED <<allowed_statements, blocked_tables, blocked_columns,
                   allowed_tables, allowed_columns, sql, call>>

\* validate(sql)
ValidateCall ==
    /\ ret' = Validate(sql, CurrentPolicy)
    /\ Remember(Validate(sql, CurrentPolicy))
    /\ last_op' = Op("validate", {})
    /\ UNCHANGED <<allowed_statements, blocked_tables, blocked_columns,
                   allowed_tables, allowed_columns, sql, call>>

\* validate_explain(sql)
ValidateExplainCall ==
    /\ ret' = ValidateExplain(sql, CurrentPolicy)
    /\ last_op' = Op("validate_explain", {})
    /\ Later
    /\ UNCHANGED <<allowed_statements, blocked_tables, blocked_columns,
                   allowed_tables, allowed_columns, sql, call>>

\* extract_tables(sql): list(set(tables)) comes in an order the call does not
\* fix
ExtractTablesCall ==
    /\ \E r \in ExtractTables(sql) : ret' = r
    /\ last_op' = Op("extract_tables", {})
    /\ Later
    /\ UNCHANGED <<allowed_statements, blocked_tables, blocked_columns,
                   allowed_tables, allowed_columns, sql, call>>

\* the query tool serves a request for which the AI client generated text
QueryCall(text, return_mode) ==
    /\ sql' = text
    /\ tool' = QueryTool(text, return_mode, CurrentPolicy)
    /\ last_op' = Op("query", return_mode)
    /\ ret' = ReturnedNone
    /\ UNCHANGED <<allowed_statements, blocked_tables, blocked_columns,
                   allowed_tables, allowed_columns, vpc, vi, frame, seen, nupd, first,
                   services>>

\* the explain tool serves a request for which the AI client generated text
ExplainToolCall(text) ==
    /\ sql' = text
    /\ \E tables \in ExtractTables(text) : tool' = ExplainTool(text, CurrentPolicy, tables)
    /\ last_op' = Op("explain", {})
    /\ ret' = ReturnedNone
    /\ UNCHANGED <<allowed_statements, blocked_tables, blocked_columns,
                   allowed_tables, allowed_columns, vpc, vi, frame, seen, nupd, first,
                   services>>

SetBlockedTables(tables) ==
    /\ blocked_tables' = NewBlockedTables(blocked_tables, tables)
    /\ last_op' = Op("set_blocked_tables", tables)
    /\ ret' = ReturnedNone
    /\ first' = NoFirst
    /\ UNCHANGED <<allowed_statements, blocked_columns, allowed_tables,
                   allowed_columns, sql, call>>

SetBlockedColumns(columns) ==
    /\ blocked_columns' = NewBlockedColumns(blocked_columns, columns)
    /\ last_op' = Op("set_blocked_columns", columns)
    /\ ret' = ReturnedNone
    /\ first' = NoFirst
    /\ UNCHANGED <<allowed_statements, blocked_tables, allowed_tables,
                   allowed_columns, sql, call>>

SetAllowedTables(tables) ==
    /\ allowed_tables' = NewAllowedTables(allowed_tables, tables)
    /\ last_op' = Op("set_allowed_tables", tables)
    /\ ret' = ReturnedNone
    /\ first' = NoFirst
    /\ UNCHANGED <<allowed_statements, blocked_tables, blocked_columns,
                   allowed_columns, sql, call>>

SetAllowedColumns(columns) ==
    /\ allowed_columns' = NewAllowedColumns(allowed_columns, columns)
    /\ last_op' = Op("set_allowed_columns", columns)
    /\ ret' = ReturnedNone
    /\ first' = NoFirst
    /\ UNCHANGED <<allowed_statements, blocked_tables, blocked_columns,
                   allowed_tables, sql, call>>

Next ==
    \/ ValidateCall
    \/ \E t \in BlockedTablesArgs : SetBlockedTables(t)
    \/ \E c \in BlockedColumnsArgs : SetBlockedColumns(c)
    \/ \E t \in AllowedTablesArgs : SetAllowedTables(t)
    \/ \E c \in AllowedColumnsArgs : SetAllowedColumns(c)

Spec == Init /\ [][Next]_vars

(***************************************************************************)
(* A validator that serves one request text after another, through all    *)
(* three of its entry points.                                              *)
(***************************************************************************)
\* the texts of the requests
CallTexts ==
    {Sel(<<"password">>, <<"users">>),
     Sel(<<"id">>, <<"users", "u">>) \o <<"JOIN", "orders", "o", "ON", "u", ".", "id", "=", "o", ".", "id">>,
     Sel(<<"id">>, <<"users">>) \o <<"JOIN", "users", "JOIN", "Users">>,
     <<"WITH", "x", "AS", "(">> \o Sel(<<"*">>, <<"users">>) \o <<")">> \o Sel(<<"*">>, <<"x">>),
     <<"SELECT", "FROM">>,
     <<"SELECT", "'", "x">>,
     <<"SELECT", "1", "--", "/*", "NL", "'", "*/">>}

\* the next request arrives with its text; the answer to the one before
\* has been handed out
Request(s) ==
    /\ s # sql
    /\ sql' = s
    /\ last_op' = Op("request", {})
    /\ ret' = ReturnedNone
    /\ UNCHANGED <<allowed_statements, blocked_tables, blocked_columns,
                   allowed_tables, allowed_columns, call, first>>

InitCalls == Init /\ sql \in CallTexts

NextCalls ==
    \/ Next
    \/ ValidateExplainCall
    \/ ExtractTablesCall
    \/ \E s \in CallTexts : Request(s)

SpecCalls == InitCalls /\ [][NextCalls]_vars

(***************************************************************************)
(* The rate limiter under calls of its clients while time passes.          *)
(***************************************************************************)
MaxRequestsArgs == {1, 2}

WindowSecondsArgs == {1, 2}

BlockDurationArgs == {0, 2}

\* is_allowed(client_id)
IsAllowed(c) ==
    /\ limiter' = LimiterAfter(limiter, c, now)
    /\ rl' = Call(IsAllowedResult(limiter, c, now), limiter, limiter', rl.reset \in {c, "all"})
    /\ granted' = IF IsAllowedResult(limiter, c, now).allowed
                  THEN [granted EXCEPT ![c] = Append(@, now)] ELSE granted
    /\ UNCHANGED <<validation, now, breaking, retrying, measuring, caching>>

\* the clock moves on
Tick ==
    /\ now < MaxTime
    /\ now' = now + 1
    /\ UNCHANGED <<validation, limiting, breaking, retrying, measuring, caching>>

InitLimiter ==
    /\ \E m \in MaxRequestsArgs, w \in WindowSecondsArgs, b \in BlockDurationArgs :
            limiter = NewLimiter(m, w, b)
    /\ now = 0
    /\ rl = NoResult
    /\ granted = [c \in Clients |-> <<>>]
    /\ BreakerIdle
    /\ RetryIdle
    /\ MetricsIdle
    /\ CacheIdle
    /\ ValidatorAtRest

NextLimiter ==
    \/ \E c \in Clients : IsAllowed(c)
    \/ Tick

SpecLimiter == InitLimiter /\ [][NextLimiter]_vars

(***************************************************************************)
(* The same limiter with an operator who resets clients.                   *)
(***************************************************************************)
\* reset(client_id)
Reset(c) ==
    /\ limiter' = ResetClient(limiter, c)
    /\ rl' = [NoResult EXCEPT !.reset = c]
    /\ granted' = [granted EXCEPT ![c] = <<>>]
    /\ UNCHANGED <<validation, now, breaking, retrying, measuring, caching>>

\* reset()
ResetEveryClient ==
    /\ limiter' = ResetAll(limiter)
    /\ rl' = [NoResult EXCEPT !.reset = "all"]
    /\ granted' = [c \in Clients |-> <<>>]
    /\ UNCHANGED <<validation, now, breaking, retrying, measuring, caching>>

InitLimiterReset == InitLimiter

NextLimiterReset ==
    \/ \E c \in Clients : IsAllowed(c)
    \/ \E c \in Clients : Reset(c)
    \/ ResetEveryClient
    \/ Tick

SpecLimiterReset == InitLimiterReset /\ [][NextLimiterReset]_vars

(***************************************************************************)
(* The circuit breaker around a function that succeeds or fails, while     *)
(* time passes.                                                            *)
(***************************************************************************)
\* the failures a breaker counts before the function is left alone
MaxFailures == 3

BreakerConfigs ==
    {CircuitBreakerConfig(f, s, t, 2, v) : f \in {1, 2}, s \in {1, 2}, t \in {1, 2}, v \in {1, 2}}

\* a call of the wrapped function through the breaker
Execute(succeeds) ==
    /\ succeeds \/ breaker.failure_count < MaxFailures
    /\ breaker' = Executed(breaker, now, succeeds)
    /\ cb' = CallRecord(breaker, now, succeeds)
    /\ opened' = IF StateRead(breaker, now).state = "open"
                 THEN OpenedAfter(opened, breaker, breaker', now, TRUE)
                 ELSE Noted(OpenedAfter(OpenedAfter(opened, breaker, StateRead(breaker, now),
                                                    now, TRUE),
                                        StateRead(breaker, now), breaker', now, FALSE),
                            StateRead(breaker, now), breaker',
                            IF succeeds THEN "success" ELSE "failure")
    /\ UNCHANGED <<validation, now, limiting, retrying, pending, measuring, caching>>

\* breaker.state
GetState ==
    /\ breaker' = StateRead(breaker, now)
    /\ opened' = OpenedAfter(opened, breaker, breaker', now, TRUE)
    /\ UNCHANGED <<validation, now, limiting, cb, retrying, pending, measuring, caching>>

\* breaker.reset()
ResetBreaker ==
    /\ breaker' = NewBreaker(breaker.config)
    /\ opened' = [opened EXCEPT !.at = None, !.streak = 0]
    /\ UNCHANGED <<validation, now, limiting, cb, retrying, pending, measuring, caching>>

InitBreaker ==
    /\ \E config \in BreakerConfigs : breaker = NewBreaker(config)
    /\ cb = NoCall
    /\ pending = 0
    /\ opened = NeverOpened
    /\ now = 0
    /\ LimiterIdle
    /\ RetryIdle
    /\ MetricsIdle
    /\ CacheIdle
    /\ ValidatorAtRest

NextBreaker ==
    \/ \E succeeds \in BOOLEAN : Execute(succeeds)
    \/ GetState
    \/ ResetBreaker
    \/ Tick

SpecBreaker == InitBreaker /\ [][NextBreaker]_vars

(***************************************************************************)
(* A breaker around an async function: between the guard of                *)
(* _execute_async and the end of "await func(...)" other calls pass the    *)
(* guard, end, and the clock moves.                                        *)
(***************************************************************************)
MaxPending == 2

\* if self.state == CircuitState.OPEN: raise CircuitOpenError; otherwise the
\* wrapped function starts
Admit ==
    /\ pending < MaxPending
    /\ breaker' = StateRead(breaker, now)
    /\ pending' = IF breaker'.state = "open" THEN pending ELSE pending + 1
    /\ opened' = OpenedAfter(opened, breaker, breaker', now, TRUE)
    /\ UNCHANGED <<validation, now, limiting, cb, retrying, measuring, caching>>

\* the wrapped function of an admitted call ends: _on_success or _on_failure
Complete(succeeds) ==
    /\ pending > 0
    /\ succeeds \/ breaker.failure_count < MaxFailures
    /\ breaker' = IF succeeds THEN OnSuccess(breaker) ELSE OnFailure(breaker, now)
    /\ pending' = pending - 1
    /\ opened' = Noted(OpenedAfter(opened, breaker, breaker', now, FALSE), breaker, breaker',
                       IF succeeds THEN "success" ELSE "failure")
    /\ UNCHANGED <<validation, now, limiting, cb, retrying, measuring, caching>>

InitBreakerAsync == InitBreaker

NextBreakerAsync ==
    \/ Admit
    \/ \E succeeds \in BOOLEAN : Complete(succeeds)
    \/ GetState
    \/ ResetBreaker
    \/ Tick

SpecBreakerAsync == InitBreakerAsync /\ [][NextBreakerAsync]_vars

(***************************************************************************)
(* A function under with_retry that succeeds or fails at each invocation.  *)
(***************************************************************************)
MaxAttempts == 3

ExceptionKinds == {"ConnectionError", "TimeoutError", "ValueError"}

RetryOnArgs == {{"Exception"}, {"ConnectionError", "TimeoutError"}, {"ConnectionError"}}

\* the decorated function is called
RetryCall ==
    /\ retry.pc \in {"idle", "returned", "raised"}
    /\ retry' = Entered(retry)
    /\ attempts' = <<>>
    /\ UNCHANGED <<validation, now, limiting, breaking, measuring, caching>>

\* the wrapped function is invoked and returns or raises
Invoke(kind) ==
    /\ retry.pc = "try"
    /\ retry' = AfterInvocation(retry, Outcome(kind, Len(attempts) + 1))
    /\ attempts' = Append(attempts, Outcome(kind, Len(attempts) + 1))
    /\ UNCHANGED <<validation, now, limiting, breaking, measuring, caching>>

\* time.sleep(delay) / asyncio.sleep(delay) is over
Wake ==
    /\ retry.pc = "sleep"
    /\ retry' = AfterSleep(retry)
    /\ UNCHANGED <<validation, now, limiting, breaking, attempts, measuring, caching>>

InitRetry ==
    /\ \E m \in 1..MaxAttempts, on \in RetryOnArgs : retry = NewRetry(m, on)
    /\ attempts = <<>>
    /\ now = 0
    /\ LimiterIdle
    /\ BreakerIdle
    /\ MetricsIdle
    /\ CacheIdle
    /\ ValidatorAtRest

NextRetry ==
    \/ RetryCall
    \/ \E kind \in Values \cup ExceptionKinds : Invoke(kind)
    \/ Wake

SpecRetry == InitRetry /\ [][NextRetry]_vars

(***************************************************************************)
(* A metrics collector that records requests of two operations and is      *)
(* asked for its summaries.                                                *)
(***************************************************************************)
MaxRequests == 3

Operations == {"query", "explain"}

\* record_request from a thread that finds the lock free
RecordRequest(operation, success) ==
    /\ collector.lock = Free
    /\ Len(collector.requests) < MaxRequests
    /\ collector' = RequestRecorded(collector, operation, success, now)
    /\ UNCHANGED <<validation, now, limiting, breaking, retrying, summaries, caching>>

\* get_all_summaries is called: "with self._lock" is entered and the set of
\* operations is built; with no operation the empty dictionary is returned
GetAllSummaries ==
    /\ summaries.pc \in {"idle", "returned"}
    /\ collector.lock = Free
    /\ IF OperationsOf(collector) = {}
       THEN /\ summaries' = Summaries("returned", {}, {})
            /\ collector' = collector
       ELSE /\ summaries' = Summaries("comprehension", OperationsOf(collector), {})
            /\ collector' = [collector EXCEPT !.lock = "caller"]
    /\ UNCHANGED <<validation, now, limiting, breaking, retrying, caching>>

\* the comprehension calls get_operation_summary(op), whose "with
\* self._lock" takes the lock when it is free and waits for it otherwise
InnerSummary(op) ==
    /\ summaries.pc = "comprehension"
    /\ op \in summaries.operations
    /\ IF collector.lock = Free
       THEN summaries' = Summaries(IF summaries.operations = {op} THEN "returned"
                                   ELSE "comprehension",
                                   summaries.operations \ {op},
                                   summaries.result \cup OperationSummary(collector, op, now))
       ELSE summaries' = [summaries EXCEPT !.pc = "blocked"]
    /\ UNCHANGED <<validation, now, limiting, breaking, retrying, collector, caching>>

InitMetrics ==
    /\ \E w \in WindowSecondsArgs : collector = NewCollector(w)
    /\ summaries = NoSummaries
    /\ now = 0
    /\ LimiterIdle
    /\ BreakerIdle
    /\ RetryIdle
    /\ CacheIdle
    /\ ValidatorAtRest

NextMetrics ==
    \/ \E operation \in Operations, success \in BOOLEAN : RecordRequest(operation, success)
    \/ GetAllSummaries
    \/ \E op \in Operations : InnerSummary(op)
    \/ Tick

SpecMetrics == InitMetrics /\ [][NextMetrics]_vars

(***************************************************************************)
(* A schema service asked for the schemas of several databases, whose      *)
(* loads from the database succeed or fail.                                *)
(***************************************************************************)
CacheTtlArgs == {1, 2}

ForceRefreshArgs == {FALSE}

\* get_schema_info(force_refresh, database)
GetSchemaInfo(database, force_refresh, fetched) ==
    /\ schema' = SchemaServiceAfter(schema, database, force_refresh, now, fetched)
    /\ served' = Served(schema, database, force_refresh, now, fetched)
    /\ UNCHANGED <<validation, now, limiting, breaking, retrying, measuring>>

InitSchema ==
    /\ \E ttl \in CacheTtlArgs : schema = NewSchemaService(ttl)
    /\ served = NotServed
    /\ now = 0
    /\ LimiterIdle
    /\ BreakerIdle
    /\ RetryIdle
    /\ MetricsIdle
    /\ ValidatorAtRest

NextSchema ==
    \/ \E database \in Databases, force_refresh \in ForceRefreshArgs, fetched \in BOOLEAN :
            GetSchemaInfo(database, force_refresh, fetched)
    \/ Tick

SpecSchema == InitSchema /\ [][NextSchema]_vars

(***************************************************************************)
(* The query tool in front of a validator whose policy is set from time    *)
(* to time.                                                                *)
(***************************************************************************)
\* what the AI client generates
GeneratedTexts ==
    {<<"ERROR:", "unknown", "table">>,
     <<"SELECT", "'", "x">>,
     <<"DROP", "TABLE", "users">>,
     <<"SELECT", "1", "--", "/*", "NL", "'", "*/">>,
     Sel(<<"*">>, <<"orders">>) \o <<";", "DROP", "TABLE", "users">>}
    \cup Carriers \cup CteSelects

ReturnModes == {"sql", "result"}

InitTool == Init /\ sql \in GeneratedTexts

NextTool ==
    \/ \E text \in GeneratedTexts, return_mode \in ReturnModes : QueryCall(text, return_mode)
    \/ \E text \in GeneratedTexts : ExplainToolCall(text)
    \/ \E tables \in BlockedTablesArgs : SetBlockedTables(tables)
    \/ \E columns \in BlockedColumnsArgs : SetBlockedColumns(columns)
    \/ \E tables \in AllowedTablesArgs : SetAllowedTables(tables)
    \/ \E columns \in AllowedColumnsArgs : SetAllowedColumns(columns)

SpecTool == InitTool /\ [][NextTool]_vars


(***************************************************************************)
(* What the database reads in the raw text that the query tool hands to    *)
(* conn.fetch: PostgreSQL's lexical rules.  A quote opens a string that    *)
(* runs to the next quote, and comment delimiters inside it are part of    *)
(* the string; "--" outside a string opens a comment that ends with the    *)
(* line; "/*" outside a string opens a comment that nests and ends with    *)
(* its matching "*/".                                                      *)
(***************************************************************************)
RECURSIVE PgScan(_, _, _)
PgScan(s, mode, depth) ==
    IF s = <<>> THEN <<>>
    ELSE LET x == Head(s)
             r == Tail(s)
         IN  CASE mode = "code" ->
                    IF x = "'" THEN <<x>> \o PgScan(r, "string", 0)
                    ELSE IF x = "--" THEN PgScan(r, "line", 0)
                    ELSE IF x = "/*" THEN PgScan(r, "block", 1)
                    ELSE <<x>> \o PgScan(r, "code", 0)
               [] mode = "string" ->
                    <<x>> \o PgScan(r, IF x = "'" THEN "code" ELSE "string", 0)
               [] mode = "line" ->
                    IF x = "NL" THEN <<x>> \o PgScan(r, "code", 0)
                    ELSE PgScan(r, "line", 0)
               [] mode = "block" ->
                    IF x = "/*" THEN PgScan(r, "block", depth + 1)
                    ELSE IF x = "*/"
                         THEN PgScan(r, IF depth = 1 THEN "code" ELSE "block", depth - 1)
                    ELSE PgScan(r, "block", depth)

\* the part of the text outside SQL comments
PgOutsideComments(s) == PgScan(s, "code", 0)

\* the statements the database finds in the raw text
DbParse(s) == SqlglotParse(PgOutsideComments(s))

\* the number of statements in the raw text
DbStatementCount(s) ==
    LET tk == Tokenize(PgOutsideComments(s))
        ch == Chunks(tk.toks, <<>>)
    IN  IF ~tk.ok THEN 0
        ELSE Cardinality({k \in 1..Len(ch) : ch[k] # <<>>})

\* the Table nodes of the statements in the raw text
DbTableNodes(s) ==
    LET parse == DbParse(s)
    IN  IF parse.outcome # "ok" THEN {}
        ELSE UNION {{parse.stmts[k].tabs[j] : j \in 1..Len(parse.stmts[k].tabs)} :
                        k \in 1..Len(parse.stmts)}

(***************************************************************************)
(* Vocabulary of the properties.                                           *)
(***************************************************************************)
Validated == last_op.op = "validate"

Cleaned == RemoveComments(sql)

\* the call passes the keyword scan, the parse, the statement count and the
\* statement type, and so reaches table extraction
ReachesExtraction ==
    /\ ~MatchesForbidden(Cleaned)
    /\ SqlglotParse(Cleaned).outcome = "ok"
    /\ Len(SqlglotParse(Cleaned).stmts) = 1
    /\ Upper(SqlglotParse(Cleaned).stmts[1].type) \in allowed_statements

\* the statement the call parsed
ParsedStatement == SqlglotParse(Cleaned).stmts[1]

MutatingKeywords ==
    {"INSERT", "UPDATE", "DELETE", "DROP", "TRUNCATE", "ALTER", "CREATE",
     "GRANT", "REVOKE", "EXECUTE"}

EarlyReasons ==
    {"ForbiddenKeyword", "SyntaxError", "MultiStatementError", "DisallowedStatementType"}

\* C1 (denylist soundness): a validate call on a text that holds a mutating
\* keyword as a whole word, in any letter case, outside its SQL comments
\* returns valid = false.
C1_DenylistSoundness ==
    (/\ Validated
     /\ \E i \in 1..Len(PgOutsideComments(sql)) :
            /\ IsWord(PgOutsideComments(sql)[i])
            /\ Upper(PgOutsideComments(sql)[i]) \in MutatingKeywords)
    => (~ret.raised /\ ~ret.valid)

\* C2 (allow-list exclusivity): with a non-empty allowed_tables, a statement
\* that reaches the table checks, names no blocked table and references a
\* table outside allowed_tables is rejected as an unauthorized table, even if
\* it also references allowed tables; one that references tables, all of them
\* allowed, is not rejected for that reason.
C2_AllowListExclusivity ==
    (/\ Validated
     /\ allowed_tables # {}
     /\ ReachesExtraction
     /\ FirstBlockedTable(ExtractTablesInfo(ParsedStatement), blocked_tables) = 0)
    => LET names == {Lower(ParsedStatement.tabs[k].name) : k \in 1..Len(ParsedStatement.tabs)}
       IN  /\ ~(names \subseteq allowed_tables)
              => (~ret.valid /\ ret.reason = "UnauthorizedTable")
           /\ (names # {} /\ names \subseteq allowed_tables)
              => ret.reason # "UnauthorizedTable"

\* C3 (blocked-table completeness): a validate call on a text whose statement
\* references a table of blocked_tables (in any letter case, anywhere in the
\* statement) is rejected, with the blocked-table reason naming a blocked
\* table unless an earlier stage has already rejected the text.
C3_BlockedTableCompleteness ==
    (/\ Validated
     /\ \E n \in DbTableNodes(sql) : Lower(n.name) \in blocked_tables)
    => /\ ~ret.raised
       /\ ~ret.valid
       /\ \/ ret.reason \in EarlyReasons
          \/ /\ ret.reason = "BlockedTable"
             /\ Lower(ret.arg[1]) \in blocked_tables

\* the reserved system schemas and the names with a reserved prefix
IsReservedName(w) == Lower(w) \in PgPrefixed \cup InfoPrefixed

\* C4 (system-schema invariance): under every policy, a validate call on a
\* statement that references a table with a reserved prefix or inside a
\* reserved system schema never returns valid = true.
C4_SystemSchemaInvariance ==
    (/\ Validated
     /\ SqlglotParse(Cleaned).outcome = "ok"
     /\ \E k \in 1..Len(SqlglotParse(Cleaned).stmts) :
            \E j \in 1..Len(SqlglotParse(Cleaned).stmts[k].tabs) :
                \/ IsReservedName(SqlglotParse(Cleaned).stmts[k].tabs[j].name)
                \/ IsReservedName(SqlglotParse(Cleaned).stmts[k].tabs[j].db))
    => ~ret.valid

\* C5: a statement with a table reference qualified by information_schema or
\* pg_catalog is rejected whatever the table's own name is.
C5_QualifiedSystemSchemaRejected ==
    (/\ Validated
     /\ ReachesExtraction
     /\ \E j \in 1..Len(ParsedStatement.tabs) :
            Lower(ParsedStatement.tabs[j].db) \in {"information_schema", "pg_catalog"})
    => (~ret.raised /\ ~ret.valid)

\* C6 (single-statement invariant): a validate call on a text that holds more
\* than one top-level statement is rejected, whatever the later statements
\* are: with the multi-statement reason, unless the keyword scan, which runs
\* first, has already rejected the text.
C6_SingleStatementInvariant ==
    (Validated /\ DbStatementCount(sql) > 1)
    => /\ ~ret.raised
       /\ ~ret.valid
       /\ ret.reason \in {"MultiStatementError", "ForbiddenKeyword"}

\* C7: validate never raises; a text the parsing library cannot tokenize or
\* parse gives valid = false, the syntax-error outcome and details null.
C7_ValidateNeverRaises ==
    Validated
    => /\ ~ret.raised
       /\ (~MatchesForbidden(Cleaned) /\ SqlglotParse(Cleaned).outcome # "ok")
          => (~ret.valid /\ ret.reason = "SyntaxError" /\ ~ret.details.present)

\* C8 as stated: in every result, details is non-null whenever structural
\* parsing succeeded, and null only for a rejection at the keyword scan or at
\* a parse failure.
C8_DetailsWheneverParsed ==
    (Validated /\ ~ret.raised)
    => (ret.details.present
        <=> (~MatchesForbidden(Cleaned) /\ SqlglotParse(Cleaned).outcome = "ok"))

\* C8 (amended): in every result validate returns, details is non-null
\* exactly when the call reached table extraction, that is when it passed the
\* keyword scan, the parse, the statement-count check and the statement-type
\* check; details then lists the extracted tables.
C8_DetailsAfterExtraction ==
    (Validated /\ ~ret.raised)
    => /\ ret.details.present <=> ReachesExtraction
       /\ ret.details.present
          => ret.details.tables = ExtractTablesInfo(ParsedStatement)

\* a rejection decided after extraction carries the tables, and a rejection
\* at the statement-type check carries none
C8_Witness ==
    /\ Validated
    /\ ~ret.valid
    /\ ret.reason = "BlockedColumn"
    /\ ret.details.present
    /\ Len(ret.details.tables) > 0

\* C10: each setter replaces its field by exactly the lower-cased argument,
\* whatever the field held before, and leaves the other three access-control
\* fields and allowed_statements unchanged; a validate call changes no field
\* and decides by the fields as they are.
C10_SettersReplaceWholesale ==
    [][/\ last_op'.op = "set_blocked_tables"
          => /\ blocked_tables' = LowerSet(last_op'.arg)
             /\ UNCHANGED <<allowed_statements, blocked_columns, allowed_tables, allowed_columns>>
       /\ last_op'.op = "set_blocked_columns"
          => /\ blocked_columns' = LowerDict(last_op'.arg)
             /\ UNCHANGED <<allowed_statements, blocked_tables, allowed_tables, allowed_columns>>
       /\ last_op'.op = "set_allowed_tables"
          => /\ allowed_tables' = LowerSet(last_op'.arg)
             /\ UNCHANGED <<allowed_statements, blocked_tables, blocked_columns, allowed_columns>>
       /\ last_op'.op = "set_allowed_columns"
          => /\ allowed_columns' = LowerDict(last_op'.arg)
             /\ UNCHANGED <<allowed_statements, blocked_tables, blocked_columns, allowed_tables>>
       /\ last_op'.op = "validate"
          => /\ UNCHANGED <<allowed_statements, blocked_tables, blocked_columns,
                            allowed_tables, allowed_columns>>
             /\ ret' = Validate(sql, CurrentPolicy)]_vars

\* set_blocked_tables({"USERS", "orders"}) has run while the other fields
\* were configured
C10_Witness ==
    /\ last_op.op = "set_blocked_tables"
    /\ last_op.arg = {"USERS", "orders"}
    /\ blocked_tables = {"users", "orders"}
    /\ allowed_tables = {"users"}
    /\ DOMAIN blocked_columns = {"users"}
    /\ DOMAIN allowed_columns = {"users"}

(***************************************************************************)
(* A validate call running while another thread calls the setters.  The    *)
(* call reads self.blocked_tables, self.allowed_tables,                    *)
(* self.blocked_columns and self.allowed_columns anew at each use; a       *)
(* setter rebinds its field between two of these reads.  One step of the   *)
(* call is one read.                                                       *)
(***************************************************************************)
\* upper bound on the setter calls made during one validate call
MaxUpdates == 1

ConcTexts ==
    {Sel(<<"password">>, <<"users">>),
     Sel(<<"id">>, <<"users", "u">>) \o <<"JOIN", "orders", "o", "ON", "u", ".", "id", "=", "o", ".", "id">>,
     Sel(<<"id">>, <<"(">> \o Sel(<<"id">>, <<"users">>) \o <<"JOIN", "orders", ")", "s">>),
     Sel(<<"*">>, <<"pg_tables">>),
     <<"SELECT", "1">>,
     <<"COMMIT">>}

InFlight == vpc \notin {"idle", "done"}

Goto(pc, i) == vpc' = pc /\ vi' = i /\ ret' = ret

Finish(r) == vpc' = "done" /\ vi' = 0 /\ ret' = r

\* steps 7 and 8 and the final return: no policy field is read
TailResult(f) ==
    IF \E k \in 1..Len(f.tables) : IsSystemTable(f.tables[k].name)
    THEN Reject("SystemSchemaAccess", <<>>, Details(f.tables, f.columns))
    ELSE IF ContainsForbiddenCte(f.cleaned_sql)
    THEN Reject("ForbiddenCTEOperation", <<>>, Details(f.tables, f.columns))
    ELSE Accept(Details(f.tables, f.columns))

\* the column loop with the columns in the frame f
EnterColumns(f) ==
    /\ frame' = f
    /\ IF Len(f.columns) = 0 THEN Finish(TailResult(f)) ELSE Goto("blocked_columns_in", 1)

\* step 6 begins: columns = self._extract_columns_info(parsed)
StartColumns ==
    EnterColumns([frame EXCEPT !.columns = ExtractColumnsInfo(frame.parsed)])

\* the column loop moves on
NextColumn ==
    IF vi < Len(frame.columns) THEN Goto("blocked_columns_in", vi + 1)
    ELSE Finish(TailResult(frame))

ConcFrame ==
    UNCHANGED <<allowed_statements, blocked_tables, blocked_columns,
                allowed_tables, allowed_columns, sql, last_op, seen, nupd, first, tool, services>>

\* steps 3 and 4 on the parse of the cleaned text: the statement the call
\* goes on with, if it does
EntryAfterParse(cleaned, parse, as) ==
    IF /\ parse.outcome = "ok"
       /\ Len(parse.stmts) = 1
       /\ Upper(parse.stmts[1].type) \in as
    THEN [reached |-> TRUE,
          frame |-> [cleaned_sql |-> cleaned, parsed |-> parse.stmts[1],
                     tables |-> ExtractTablesInfo(parse.stmts[1]), columns |-> <<>>]]
    ELSE [reached |-> FALSE, frame |-> NoFrame]

\* steps 1 to 4 and the extraction of the tables
EntryCleaned(cleaned, as) ==
    IF MatchesForbidden(cleaned) THEN [reached |-> FALSE, frame |-> NoFrame]
    ELSE EntryAfterParse(cleaned, SqlglotParse(cleaned), as)

Entry(text, as) == EntryCleaned(RemoveComments(text), as)

BeginWith(e) ==
    /\ frame' = e.frame
    /\ IF ~e.reached THEN Finish(Validate(sql, CurrentPolicy))
       ELSE Goto("blocked_tables", 1)

\* the call starts: steps 1 to 5 up to the extraction of the tables
ConcBegin ==
    /\ vpc = "idle"
    /\ seen' = {CurrentPolicy}
    /\ nupd' = 0
    /\ BeginWith(Entry(sql, allowed_statements))
    /\ UNCHANGED <<allowed_statements, blocked_tables, blocked_columns,
                   allowed_tables, allowed_columns, sql, last_op, first, tool, services>>

\* "if table_name in self.blocked_tables", once per table
ConcBlockedTables ==
    /\ vpc = "blocked_tables"
    /\ IF vi > Len(frame.tables) THEN Goto("allowed_tables_truth", 0)
       ELSE IF Lower(frame.tables[vi].name) \in blocked_tables
       THEN Finish(Reject("BlockedTable", <<frame.tables[vi].name>>,
                          Details(frame.tables, <<>>)))
       ELSE Goto("blocked_tables", vi + 1)
    /\ UNCHANGED frame
    /\ ConcFrame

\* "if self.allowed_tables and ..."
ConcAllowedTablesTruth ==
    /\ vpc = "allowed_tables_truth"
    /\ IF allowed_tables = {} THEN StartColumns
       ELSE IF Len(frame.tables) = 0
       THEN Finish(Reject("UnauthorizedTable", <<>>, Details(frame.tables, <<>>)))
            /\ UNCHANGED frame
       ELSE Goto("allowed_tables_any", 1) /\ UNCHANGED frame
    /\ ConcFrame

\* "any(t["name"].lower() in self.allowed_tables for t in tables)", once per table
ConcAllowedTablesAny ==
    /\ vpc = "allowed_tables_any"
    /\ IF Lower(frame.tables[vi].name) \in allowed_tables THEN StartColumns
       ELSE IF vi = Len(frame.tables)
       THEN Finish(Reject("UnauthorizedTable", <<>>, Details(frame.tables, <<>>)))
            /\ UNCHANGED frame
       ELSE Goto("allowed_tables_any", vi + 1) /\ UNCHANGED frame
    /\ ConcFrame

\* "if table_name and table_name in self.blocked_columns"
ConcBlockedColumnsIn ==
    /\ vpc = "blocked_columns_in"
    /\ IF frame.columns[vi].table # "" /\ frame.columns[vi].table \in DOMAIN blocked_columns
       THEN Goto("blocked_columns_get", vi)
       ELSE Goto("allowed_columns_truth", vi)
    /\ UNCHANGED frame
    /\ ConcFrame

\* "if col_name in self.blocked_columns[table_name]"
ConcBlockedColumnsGet ==
    /\ vpc = "blocked_columns_get"
    /\ IF frame.columns[vi].table \notin DOMAIN blocked_columns THEN Finish(Raise("KeyError"))
       ELSE IF Lower(frame.columns[vi].name) \in blocked_columns[frame.columns[vi].table]
       THEN Finish(Reject("BlockedColumn", ColumnLabel(frame.columns[vi]),
                          Details(frame.tables, frame.columns)))
       ELSE Goto("allowed_columns_truth", vi)
    /\ UNCHANGED frame
    /\ ConcFrame

\* "if self.allowed_columns:"
ConcAllowedColumnsTruth ==
    /\ vpc = "allowed_columns_truth"
    /\ IF DOMAIN allowed_columns = {} THEN NextColumn
       ELSE IF frame.columns[vi].table # "" THEN Goto("allowed_columns_in", vi)
       ELSE Goto("allowed_columns_any", vi)
    /\ UNCHANGED frame
    /\ ConcFrame

\* "if table_name and table_name in self.allowed_columns"
ConcAllowedColumnsIn ==
    /\ vpc = "allowed_columns_in"
    /\ IF frame.columns[vi].table \in DOMAIN allowed_columns
       THEN Goto("allowed_columns_get", vi)
       ELSE NextColumn
    /\ UNCHANGED frame
    /\ ConcFrame

\* "if col_name not in self.allowed_columns[table_name]"
ConcAllowedColumnsGet ==
    /\ vpc = "allowed_columns_get"
    /\ IF frame.columns[vi].table \notin DOMAIN allowed_columns THEN Finish(Raise("KeyError"))
       ELSE IF Lower(frame.columns[vi].name) \notin allowed_columns[frame.columns[vi].table]
       THEN Finish(Reject("UnauthorizedColumn", ColumnLabel(frame.columns[vi]),
                          Details(frame.tables, frame.columns)))
       ELSE NextColumn
    /\ UNCHANGED frame
    /\ ConcFrame

\* "any(col_name in cols for cols in self.allowed_columns.values())"
ConcAllowedColumnsAny ==
    /\ vpc = "allowed_columns_any"
    /\ IF \E t \in DOMAIN allowed_columns :
              Lower(frame.columns[vi].name) \in allowed_columns[t]
       THEN NextColumn
       ELSE Finish(Reject("UnauthorizedColumn", ColumnLabel(frame.columns[vi]),
                          Details(frame.tables, frame.columns)))
    /\ UNCHANGED frame
    /\ ConcFrame

\* the caller takes the result; the next call may start
ConcReturn ==
    /\ vpc = "done"
    /\ vpc' = "idle"
    /\ frame' = NoFrame
    /\ UNCHANGED <<allowed_statements, blocked_tables, blocked_columns, allowed_tables,
                   allowed_columns, sql, last_op, ret, vi, seen, nupd, first, tool, services>>

\* a setter called by another thread while the call is in flight: the policy
\* after it joins the policies the call has run under
ConcNoted(p) ==
    /\ InFlight
    /\ nupd < MaxUpdates
    /\ nupd' = nupd + 1
    /\ seen' = seen \cup {p}
    /\ UNCHANGED <<allowed_statements, sql, last_op, ret, vpc, vi, frame, first, tool, services>>

ConcSetBlockedTables(tables) ==
    /\ blocked_tables' = NewBlockedTables(blocked_tables, tables)
    /\ UNCHANGED <<blocked_columns, allowed_tables, allowed_columns>>
    /\ ConcNoted([CurrentPolicy EXCEPT !.blocked_tables = NewBlockedTables(blocked_tables, tables)])

ConcSetBlockedColumns(columns) ==
    /\ blocked_columns' = NewBlockedColumns(blocked_columns, columns)
    /\ UNCHANGED <<blocked_tables, allowed_tables, allowed_columns>>
    /\ ConcNoted([CurrentPolicy EXCEPT !.blocked_columns = NewBlockedColumns(blocked_columns, columns)])

ConcSetAllowedTables(tables) ==
    /\ allowed_tables' = NewAllowedTables(allowed_tables, tables)
    /\ UNCHANGED <<blocked_tables, blocked_columns, allowed_columns>>
    /\ ConcNoted([CurrentPolicy EXCEPT !.allowed_tables = NewAllowedTables(allowed_tables, tables)])

ConcSetAllowedColumns(columns) ==
    /\ allowed_columns' = NewAllowedColumns(allowed_columns, columns)
    /\ UNCHANGED <<blocked_tables, blocked_columns, allowed_tables>>
    /\ ConcNoted([CurrentPolicy EXCEPT !.allowed_columns = NewAllowedColumns(allowed_columns, columns)])

InitConc ==
    /\ Init
    /\ sql \in ConcTexts

NextConc ==
    \/ ConcBegin
    \/ ConcBlockedTables
    \/ ConcAllowedTablesTruth
    \/ ConcAllowedTablesAny
    \/ ConcBlockedColumnsIn
    \/ ConcBlockedColumnsGet
    \/ ConcAllowedColumnsTruth
    \/ ConcAllowedColumnsIn
    \/ ConcAllowedColumnsGet
    \/ ConcAllowedColumnsAny
    \/ ConcReturn
    \/ \E t \in BlockedTablesArgs : ConcSetBlockedTables(t)
    \/ \E c \in BlockedColumnsArgs : ConcSetBlockedColumns(c)
    \/ \E t \in AllowedTablesArgs : ConcSetAllowedTables(t)
    \/ \E c \in AllowedColumnsArgs : ConcSetAllowedColumns(c)

SpecConc == InitConc /\ [][NextConc]_vars

\* C9 (consistent policy snapshot): the result of a validate call that ran
\* while setters were called is the result validate gives under one of the
\* policies that were in force during the call, each of them taken whole.
C9_ConsistentSnapshot ==
    vpc = "done" => \E p \in seen : ret = Validate(sql, p)

\* a call that no setter interrupts returns what validate returns under the
\* policy in force
ConcAgreesWithValidate ==
    (vpc = "done" /\ Cardinality(seen) = 1) => \A p \in seen : ret = Validate(sql, p)

\* C11: when allowed_tables is empty, whether it was never configured or was
\* emptied by set_allowed_tables, no validate call is rejected by the table
\* allow-list check; set_allowed_tables with the empty set leaves it empty.
C11_EmptyAllowListBlocksNothing ==
    /\ (Validated /\ allowed_tables = {}) => ret.reason # "UnauthorizedTable"
    /\ (last_op.op = "set_allowed_tables" /\ last_op.arg = {}) => allowed_tables = {}

\* a query over a table is accepted while allowed_tables is empty
C11_Witness ==
    /\ Validated
    /\ allowed_tables = {}
    /\ ret.valid
    /\ Len(ret.details.tables) > 0

(***************************************************************************)
(* The owning table of a column reference as the statement itself gives    *)
(* it: the table its qualifier denotes (a table name, or an alias looked   *)
(* up among the statement's tables); without a qualifier, the one table of *)
(* the SELECT the column stands in when that SELECT has a plain FROM table *)
(* and no join; "" (none) otherwise.                                       *)
(***************************************************************************)
QualifierDenotes(q, tabs) ==
    {Lower(tabs[k].name) : k \in {j \in 1..Len(tabs) :
        \/ Lower(tabs[j].alias) = Lower(q)
        \/ tabs[j].alias = "" /\ Lower(tabs[j].name) = Lower(q)}}

OwningTable(col, tabs) ==
    IF col.qual # ""
    THEN IF Cardinality(QualifierDenotes(col.qual, tabs)) = 1
         THEN CHOOSE n \in QualifierDenotes(col.qual, tabs) : TRUE
         ELSE ""
    ELSE IF col.scopes # <<>> /\ col.scopes[1] # "" /\ ~col.joins[1]
         THEN Lower(col.scopes[1])
    ELSE ""

\* the statement has a column reference that the policy p blocks
ReadsBlockedColumn(stmt, bc) ==
    \E k \in 1..Len(stmt.cols) :
        /\ OwningTable(stmt.cols[k], stmt.tabs) \in DOMAIN bc
        /\ Lower(stmt.cols[k].name) \in bc[OwningTable(stmt.cols[k], stmt.tabs)]

\* C12 (blocked columns): a validate call that gets as far as the access
\* checks, on a statement with a reference to a column c whose owning table
\* is t, under a policy with c in blocked_columns[t], returns valid = false.
C12_BlockedColumnRejected ==
    (/\ Validated
     /\ ReachesExtraction
     /\ ReadsBlockedColumn(ParsedStatement, blocked_columns))
    => ~ret.valid

\* the statement has a column reference whose owning table is a key of the
\* column allow-list ac and whose name is not in that table's allowed set
ReadsUnlistedColumn(stmt, ac) ==
    \E k \in 1..Len(stmt.cols) :
        /\ OwningTable(stmt.cols[k], stmt.tabs) \in DOMAIN ac
        /\ Lower(stmt.cols[k].name) \notin ac[OwningTable(stmt.cols[k], stmt.tabs)]

\* C13 (column allow-list, resolved owner): with allowed_columns configured, a
\* validate call that gets as far as the access checks, on a statement with a
\* reference to a column whose owning table t is a key of allowed_columns and
\* whose lower-cased name is absent from allowed_columns[t], returns
\* valid = false; and a rejection for an unauthorized column that names a
\* table is one of a column absent from that table's allowed set.
C13_ResolvedOwnerAllowList ==
    /\ (/\ Validated
        /\ ReachesExtraction
        /\ ReadsUnlistedColumn(ParsedStatement, allowed_columns))
       => ~ret.valid
    /\ (/\ Validated
        /\ ret.reason = "UnauthorizedColumn"
        /\ Len(ret.arg) = 2)
       => ReadsUnlistedColumn(ParsedStatement, allowed_columns)

\* the statement has a column reference with no owning table whose name is
\* in no table's allowed set
ReadsUnownedUnlistedColumn(stmt, ac) ==
    \E k \in 1..Len(stmt.cols) :
        /\ OwningTable(stmt.cols[k], stmt.tabs) = ""
        /\ \A t \in DOMAIN ac : Lower(stmt.cols[k].name) \notin ac[t]

\* C14 (column allow-list, unresolved owner): with allowed_columns configured,
\* a validate call that gets as far as the access checks, on a statement with
\* a column reference that has no owning table and whose lower-cased name is
\* in no table's allowed set, returns valid = false.
C14_UnresolvedOwnerAllowList ==
    (/\ Validated
     /\ ReachesExtraction
     /\ DOMAIN allowed_columns # {}
     /\ ReadsUnownedUnlistedColumn(ParsedStatement, allowed_columns))
    => ~ret.valid

(***************************************************************************)
(* The stages of validate after the comment strip, numbered in the order   *)
(* of the code, each with the condition under which it refuses the text.   *)
(***************************************************************************)
Stages == 1..9

\* the cleaned text parses to exactly one statement
ParsesToOne ==
    /\ SqlglotParse(Cleaned).outcome = "ok"
    /\ Len(SqlglotParse(Cleaned).stmts) = 1

StageFails(n) ==
    CASE n = 1 -> MatchesForbidden(Cleaned)
      [] n = 2 -> SqlglotParse(Cleaned).outcome = "ParseError"
      [] n = 3 -> /\ SqlglotParse(Cleaned).outcome = "ok"
                  /\ Len(SqlglotParse(Cleaned).stmts) # 1
      [] n = 4 -> /\ ParsesToOne
                  /\ Upper(ParsedStatement.type) \notin allowed_statements
      [] n = 5 -> /\ ParsesToOne
                  /\ FirstBlockedTable(ExtractTablesInfo(ParsedStatement), blocked_tables) # 0
      [] n = 6 -> /\ ParsesToOne
                  /\ TableAllowListRejects(ExtractTablesInfo(ParsedStatement), allowed_tables)
      [] n = 7 -> /\ ParsesToOne
                  /\ FirstRejectedColumn(ExtractColumnsInfo(ParsedStatement), CurrentPolicy) # 0
      [] n = 8 -> /\ ParsesToOne
                  /\ \E k \in 1..Len(ParsedStatement.tabs) :
                         IsSystemTable(ParsedStatement.tabs[k].name)
      [] n = 9 -> ContainsForbiddenCte(Cleaned)

\* the stage that gives a reason
StageOf(reason) ==
    CASE reason = "ForbiddenKeyword" -> 1
      [] reason = "SyntaxError" -> 2
      [] reason = "MultiStatementError" -> 3
      [] reason = "DisallowedStatementType" -> 4
      [] reason = "BlockedTable" -> 5
      [] reason = "UnauthorizedTable" -> 6
      [] reason \in {"BlockedColumn", "UnauthorizedColumn"} -> 7
      [] reason = "SystemSchemaAccess" -> 8
      [] reason = "ForbiddenCTEOperation" -> 9

\* C15 (stage order, first rejection wins): a validate call that returns
\* gives valid = true exactly when no stage refuses the text, and otherwise
\* the reason of the earliest refusing stage in the order keyword scan,
\* parse, statement count, statement type, blocked table, table allow-list,
\* column checks, system-schema guard, CTE detector.
C15_FirstRejectionWins ==
    (Validated /\ ~ret.raised)
    => /\ ret.valid <=> \A n \in Stages : ~StageFails(n)
       /\ ~ret.valid
          => /\ StageFails(StageOf(ret.reason))
             /\ \A m \in Stages : m < StageOf(ret.reason) => ~StageFails(m)

\* a text refused by the blocked-table stage that the column stage and the
\* system-schema guard would refuse too
C15_Witness ==
    /\ Validated
    /\ ret.reason = "BlockedTable"
    /\ StageFails(7)
    /\ StageFails(8)

AgreesWith(r, v) ==
    /\ ~r.raised
    /\ ~v.valid => r = v
    /\ v.valid => r.valid /\ r.reason = "" /\ r.details = v.details

\* C17: wherever validate returns a result, validate_explain returns the same
\* result when it is invalid, and valid with the same details when it is
\* valid, and it does not raise
C17_ExplainAgreesWithValidate ==
    (last_op.op = "validate_explain" /\ ~Validate(sql, CurrentPolicy).raised)
    => AgreesWith(ret, Validate(sql, CurrentPolicy))

\* an invalid verdict is handed through as it is
C17_InvalidUnchanged ==
    (last_op.op = "validate_explain" /\ ~Validate(sql, CurrentPolicy).raised
        /\ ~Validate(sql, CurrentPolicy).valid)
    => ret = Validate(sql, CurrentPolicy)

(***************************************************************************)
(* C18.  extract_tables.                                                   *)
(***************************************************************************)
\* the names the WITH clause of a text gives to its queries
CteNames(t) ==
    {t[k] : k \in {j \in 1..Len(t) - 2 : t[j + 1] = "AS" /\ t[j + 2] = "("}}

\* the tables of the database the first statement of a parse refers to
PhysicalTables(t, parse) ==
    {parse.stmts[1].tabs[k].name : k \in 1..Len(parse.stmts[1].tabs)} \ CteNames(t)

\* the names of a list, each once
ListsEachOnce(l, S) ==
    /\ {l[k] : k \in 1..Len(l)} = S
    /\ Len(l) = Cardinality(S)

\* what extract_tables owes on a text with the given parse
TablesAnswer(r, t, parse) ==
    /\ ~r.raised
    /\ IF parse.outcome # "ok" \/ parse.stmts = <<>> \/ ~parse.stmts[1].ok
       THEN r.arg = <<>>
       ELSE ListsEachOnce(r.arg, PhysicalTables(t, parse))

\* C18: extract_tables raises on no text, returns the empty list where the
\* parse fails, and otherwise lists each table of the database the statement
\* refers to exactly once
C18_ExtractTablesTotal ==
    last_op.op = "extract_tables" => TablesAnswer(ret, sql, SqlglotParse(sql))

(***************************************************************************)
(* C19.  The execution gate of the query tool.                             *)
(***************************************************************************)
\* the texts of a request that went to the database, the timeout setting
\* apart
SentTexts == {tool.sent[k] : k \in 1..Len(tool.sent)} \ {TimeoutStatement}

\* validate has returned valid = true for the text of the request
VerdictValid ==
    /\ ~IsAiError(sql)
    /\ ~Validate(sql, CurrentPolicy).raised
    /\ Validate(sql, CurrentPolicy).valid

\* C19: a request of the query tool sends a text to the database only if it
\* is the text of this request and validate returned valid = true for it;
\* after an invalid verdict, an AI error sentinel or an exception of validate
\* nothing is sent
C19_ExecutionGate ==
    last_op.op = "query"
    => /\ \A t \in SentTexts : t = sql /\ VerdictValid
       /\ ~VerdictValid => tool.sent = <<>>

\* a request in result mode whose text holds a statement that drops a table
\* has been answered with an error, and nothing went to the database
C19_Witness ==
    /\ last_op.op = "query" /\ last_op.arg = "result"
    /\ sql = <<"DROP", "TABLE", "users">>
    /\ tool.status = "error"
    /\ tool.sent = <<>>

(***************************************************************************)
(* C20.  Legitimate reads under the default policy.                        *)
(***************************************************************************)
\* SQLValidator(): SELECT statements only, no table or column rule
DefaultPolicy == Policy({"SELECT"}, {}, EmptyDict, {}, EmptyDict)

\* the statements that only read: a query, or queries under a set operation
ReadTypes == {"Select", "Union"}

\* where PostgreSQL's scan of the raw text ends: in code, in a string, in a
\* line comment or in a block comment
RECURSIVE PgEndMode(_, _, _)
PgEndMode(s, mode, depth) ==
    IF s = <<>> THEN mode
    ELSE CASE mode = "code" ->
                PgEndMode(Tail(s), IF Head(s) = "'" THEN "string"
                                   ELSE IF Head(s) = "--" THEN "line"
                                   ELSE IF Head(s) = "/*" THEN "block" ELSE "code", 1)
           [] mode = "string" ->
                PgEndMode(Tail(s), IF Head(s) = "'" THEN "code" ELSE "string", 1)
           [] mode = "line" ->
                PgEndMode(Tail(s), IF Head(s) = "NL" THEN "code" ELSE "line", 1)
           [] mode = "block" ->
                IF Head(s) = "/*" THEN PgEndMode(Tail(s), "block", depth + 1)
                ELSE IF Head(s) = "*/"
                     THEN PgEndMode(Tail(s), IF depth = 1 THEN "code" ELSE "block", depth - 1)
                ELSE PgEndMode(Tail(s), "block", depth)

\* the raw text is one well-formed read-only query over tables outside the
\* system schemas: no string or block comment is left open, and the text
\* holds one statement, a query
WellFormedRead(s) ==
    /\ PgEndMode(s, "code", 1) \in {"code", "line"}
    /\ DbParse(s).outcome = "ok"
    /\ Len(DbParse(s).stmts) = 1
    /\ DbParse(s).stmts[1].type \in ReadTypes
    /\ \A n \in DbTableNodes(s) : ~IsReservedName(n.name) /\ ~IsReservedName(n.db)

\* C20: under the default policy validate accepts every well-formed single
\* read-only query over non-system tables, with a null message, whatever
\* words its string literals hold and whether or not it is a set operation
C20_LegitimateReadsPass ==
    (Validated /\ CurrentPolicy = DefaultPolicy /\ WellFormedRead(sql))
    => /\ ~ret.raised
       /\ ret.valid
       /\ ret.reason = ""

(***************************************************************************)
(* C21.  The words of the keyword denylist.                                *)
(***************************************************************************)
\* the sixteen words listed for the keyword stage
ListedWords ==
    {"INSERT", "UPDATE", "DELETE", "DROP", "TRUNCATE", "ALTER", "CREATE",
     "GRANT", "REVOKE", "EXECUTE", "CONNECT", "USE", "COPY", "VACUUM", "LOAD", "DO"}

\* the cleaned text holds one of the words as a whole word, in any case
HoldsWord(s, words) == \E i \in 1..Len(s) : IsWord(s[i]) /\ Upper(s[i]) \in words

\* C21: a validate call on a text whose cleaned form holds one of the sixteen
\* listed words as a whole word is rejected with the forbidden-keyword outcome
\* and details null, before the parser runs (so nothing is raised)
C21_DenylistCoversListedWords ==
    (Validated /\ HoldsWord(Cleaned, ListedWords))
    => /\ ~ret.raised
       /\ ~ret.valid
       /\ ret.reason = "ForbiddenKeyword"
       /\ ret.details = NoDetails

\* the same for the twelve words FORBIDDEN_PATTERNS holds
C21_DenylistCoversCodedWords ==
    (Validated /\ HoldsWord(Cleaned, ForbiddenWords))
    => /\ ~ret.raised
       /\ ~ret.valid
       /\ ret.reason = "ForbiddenKeyword"
       /\ ret.details = NoDetails

(***************************************************************************)
(* C22.  Forbidden keywords inside block comments.                         *)
(***************************************************************************)
\* the lexemes of the raw text that lie inside comments of the given kinds
\* ("block", "line"), by the lexical rules of PgScan
RECURSIVE PgInside(_, _, _, _)
PgInside(s, mode, depth, kinds) ==
    IF s = <<>> THEN <<>>
    ELSE CASE mode = "code" ->
                PgInside(Tail(s), IF Head(s) = "'" THEN "string"
                                  ELSE IF Head(s) = "--" THEN "line"
                                  ELSE IF Head(s) = "/*" THEN "block" ELSE "code", 1, kinds)
           [] mode = "string" ->
                PgInside(Tail(s), IF Head(s) = "'" THEN "code" ELSE "string", 1, kinds)
           [] mode = "line" ->
                IF Head(s) = "NL" THEN PgInside(Tail(s), "code", 1, kinds)
                ELSE (IF "line" \in kinds THEN <<Head(s)>> ELSE <<>>)
                     \o PgInside(Tail(s), "line", 1, kinds)
           [] mode = "block" ->
                IF Head(s) = "/*" THEN PgInside(Tail(s), "block", depth + 1, kinds)
                ELSE IF Head(s) = "*/"
                     THEN PgInside(Tail(s), IF depth = 1 THEN "code" ELSE "block", depth - 1, kinds)
                ELSE (IF "block" \in kinds THEN <<Head(s)>> ELSE <<>>)
                     \o PgInside(Tail(s), "block", depth, kinds)

\* a forbidden keyword occurs in the text, and only inside block comments
KeywordOnlyInBlockComment(s) ==
    /\ HoldsWord(PgInside(s, "code", 1, {"block"}), ForbiddenWords)
    /\ ~HoldsWord(PgOutsideComments(s), ForbiddenWords)
    /\ ~HoldsWord(PgInside(s, "code", 1, {"line"}), ForbiddenWords)

\* C22: a validate call on a text that holds a forbidden keyword only inside a
\* block comment is rejected; a text whose comments hold no forbidden keyword
\* gets the result of the text without its comments
C22_CommentKeywords ==
    Validated
    => /\ KeywordOnlyInBlockComment(sql) => (~ret.raised /\ ~ret.valid)
       /\ ~HoldsWord(PgInside(sql, "code", 1, {"block", "line"}), ForbiddenWords)
          => ret = Validate(PgOutsideComments(sql), CurrentPolicy)

\* the first half alone
C22_HiddenKeywordRejected ==
    (Validated /\ KeywordOnlyInBlockComment(sql)) => (~ret.raised /\ ~ret.valid)

\* the second half alone
C22_HarmlessCommentsIgnored ==
    (Validated /\ ~HoldsWord(PgInside(sql, "code", 1, {"block", "line"}), ForbiddenWords))
    => ret = Validate(PgOutsideComments(sql), CurrentPolicy)

(***************************************************************************)
(* C23.  The sliding-window limit.                                         *)
(***************************************************************************)
\* the calls of client c answered allowed = true with a timestamp in the
\* interval from a to b, both ends included
GrantedIn(c, a, b) == {k \in 1..Len(granted[c]) : a <= granted[c][k] /\ granted[c][k] <= b}

\* q is the tail end of h
IsSuffix(q, h) ==
    /\ Len(q) <= Len(h)
    /\ \A k \in 1..Len(q) : q[k] = h[Len(h) - Len(q) + k]

\* C23: for every client the calls answered allowed = true with timestamps in
\* any interval of window_seconds are at most max_requests; an allowed answer
\* reports max_requests minus the requests of its window, itself included; a
\* rejected answer reports 0; and the deque holds timestamps of allowed calls
\* only, so a rejected call records no request
C23_SlidingWindowLimit ==
    /\ \A c \in Clients : \A a \in 0..MaxTime :
          Cardinality(GrantedIn(c, a, a + limiter.window_seconds)) <= limiter.max_requests
    /\ (rl.client # "" /\ rl.allowed)
       => rl.remaining = limiter.max_requests
                         - Cardinality(GrantedIn(rl.client, rl.time - limiter.window_seconds, rl.time))
    /\ (rl.client # "" /\ ~rl.allowed) => rl.remaining = 0
    /\ \A c \in Clients : IsSuffix(limiter.requests[c], granted[c])

\* a client has used up its window, was rejected, and after the window moved
\* on was let in again
C23_Witness ==
    /\ limiter.max_requests = 2
    /\ Len(granted["client1"]) > 2
    /\ rl.client = "client1" /\ ~rl.allowed
    /\ Len(granted["client2"]) > 0

(***************************************************************************)
(* C24.  The open circuit.                                                 *)
(***************************************************************************)
\* the counters and the window of recent results
Counters(b) == <<b.failure_count, b.success_count, b.recent_results, b.last_failure_time>>

\* C24: a call through the breaker that finds its state OPEN raises
\* CircuitOpenError, does not invoke the wrapped function and leaves the
\* counters and the window of recent results as they were
C24_OpenRejects ==
    (cb.made /\ cb.read = "open")
    => /\ cb.outcome = "CircuitOpenError"
       /\ ~cb.invoked
       /\ Counters(cb.left) = Counters(cb.found)
       /\ cb.left.state = "open"

\* a breaker that opened after failures has rejected a call
C24_Witness ==
    /\ cb.made /\ cb.read = "open"
    /\ cb.outcome = "CircuitOpenError"
    /\ breaker.failure_count >= 2

(***************************************************************************)
(* C25.  with_retry bounds the attempts.                                   *)
(***************************************************************************)
\* the invocations so far all raised an exception that retry_on covers
AllCaught(r, os) == \A k \in 1..Len(os) : os[k].kind \notin Values /\ Caught(r, os[k])

\* C25: the wrapped function is invoked at most max_attempts times; a call
\* returns the value of the first invocation that succeeds, and makes no
\* invocation after it; a call in which max_attempts invocations raise
\* exceptions of retry_on raises the exception of the last of them, and a
\* call raises such an exception only after exactly max_attempts invocations
C25_RetryBounded ==
    /\ Len(attempts) <= retry.max_attempts
    /\ retry.pc = "returned"
       => /\ retry.returned = attempts[Len(attempts)]
          /\ retry.returned.kind \in Values
          /\ AllCaught(retry, SubSeq(attempts, 1, Len(attempts) - 1))
    /\ (Len(attempts) = retry.max_attempts /\ AllCaught(retry, attempts))
       => /\ retry.pc = "raised"
          /\ retry.raised = attempts[Len(attempts)]
    /\ (retry.pc = "raised" /\ Caught(retry, retry.raised))
       => Len(attempts) = retry.max_attempts
    /\ retry.pc \in {"try", "sleep"} => AllCaught(retry, attempts)

\* three attempts were made, all failed with an exception of retry_on, and
\* the last one's exception left the call
C25_Witness ==
    /\ retry.max_attempts = 3
    /\ retry.pc = "raised"
    /\ Len(attempts) = 3
    /\ retry.raised = Outcome("TimeoutError", 3)
    /\ attempts[1].kind = "ConnectionError"

\* a call returned at its second attempt
C25_WitnessReturned ==
    /\ retry.max_attempts = 3
    /\ retry.pc = "returned"
    /\ Len(attempts) = 2

(***************************************************************************)
(* C26, C27.  The owning table the extractor gives a column reference.     *)
(***************************************************************************)
\* the extractor's entries for the k-th column reference of the statement:
\* those with its name
EntriesFor(stmt, k) ==
    {c \in {ExtractColumnsInfo(stmt)[j] : j \in 1..Len(ExtractColumnsInfo(stmt))} :
        Lower(c.name) = Lower(stmt.cols[k].name)}

\* the column references of the statement with a qualifier that denotes one
\* of its tables
QualifiedRefs(stmt) ==
    {k \in 1..Len(stmt.cols) :
        /\ stmt.cols[k].qual # ""
        /\ Cardinality(QualifierDenotes(stmt.cols[k].qual, stmt.tabs)) = 1}

\* C26 (owner by qualifier): for every column reference with a qualifier q,
\* a table name or an alias, every entry the extractor has for the column
\* gives as owning table the physical table that q denotes, whichever table
\* comes first in FROM.
C26_OwnerByQualifier ==
    (Validated /\ ReachesExtraction)
    => \A k \in QualifiedRefs(ParsedStatement) :
          /\ TableRef(ParsedStatement.cols[k], ParsedStatement.tabs)
             = OwningTable(ParsedStatement.cols[k], ParsedStatement.tabs)
          /\ \E c \in EntriesFor(ParsedStatement, k) :
                c.table = OwningTable(ParsedStatement.cols[k], ParsedStatement.tabs)

\* the call reached the extractor with a qualified column of the second
\* table of a join
C26_Case ==
    /\ Validated
    /\ ReachesExtraction
    /\ \E k \in QualifiedRefs(ParsedStatement) :
          /\ Len(ParsedStatement.tabs) = 2
          /\ OwningTable(ParsedStatement.cols[k], ParsedStatement.tabs)
             = Lower(ParsedStatement.tabs[2].name)

\* the column references of the statement without a qualifier that stand in
\* a SELECT with a join
AmbiguousRefs(stmt) ==
    {k \in 1..Len(stmt.cols) :
        /\ stmt.cols[k].qual = ""
        /\ stmt.cols[k].joins # <<>>
        /\ stmt.cols[k].joins[1]}

\* C27 (ambiguity is carried forward): an unqualified column reference in a
\* SELECT that joins two or more tables gets no owning table from the
\* extractor; every entry the extractor has for it has table None.
C27_AmbiguousIsNull ==
    (Validated /\ ReachesExtraction)
    => \A k \in AmbiguousRefs(ParsedStatement) :
          /\ TableRef(ParsedStatement.cols[k], ParsedStatement.tabs) = ""
          /\ \A c \in EntriesFor(ParsedStatement, k) :
                c.table = "" \/ \E j \in QualifiedRefs(ParsedStatement) :
                                   /\ Lower(ParsedStatement.cols[j].name) = Lower(c.name)
                                   /\ c.table = TableRef(ParsedStatement.cols[j], ParsedStatement.tabs)

\* the call reached the extractor with an unqualified column in a join
C27_Case ==
    /\ Validated
    /\ ReachesExtraction
    /\ AmbiguousRefs(ParsedStatement) # {}

(***************************************************************************)
(* C28.  The CTE injection detector.                                       *)
(***************************************************************************)
\* the position of the parenthesis that closes the one opened before k
RECURSIVE CloseOf(_, _, _)
CloseOf(s, k, depth) ==
    IF k > Len(s) THEN 0
    ELSE IF s[k] = "(" THEN CloseOf(s, k + 1, depth + 1)
    ELSE IF s[k] = ")" THEN IF depth = 0 THEN k ELSE CloseOf(s, k + 1, depth - 1)
    ELSE CloseOf(s, k + 1, depth)

\* the positions of AS in "WITH name AS ( body )" and ", name AS ( body )"
CteDefinitions(s) ==
    {i \in 3..Len(s) :
        /\ i + 1 <= Len(s)
        /\ Upper(s[i]) = "AS"
        /\ s[i + 1] = "("
        /\ IsWord(s[i - 1])
        /\ \/ Upper(s[i - 2]) = "WITH"
           \/ s[i - 2] = "," /\ \E w \in 1..(i - 2) : Upper(s[w]) = "WITH"
        /\ CloseOf(s, i + 2, 0) # 0}

\* the text has a CTE definition with one of the five words in its body
HasDangerousCte(s) ==
    \E i \in CteDefinitions(s) :
        \E k \in (i + 2)..(CloseOf(s, i + 2, 0) - 1) : Upper(s[k]) \in DangerousCteWords

\* C28 (CTE injection detector): for every comment-stripped text with a
\* "WITH name AS ( body )" clause whose body has DROP, DELETE, INSERT, UPDATE
\* or ALTER in any letter case, in the first or a later CTE definition,
\* _contains_forbidden_cte returns true, and a validate call that no earlier
\* stage refuses returns the forbidden-CTE outcome.
C28_CteDetector ==
    (Validated /\ HasDangerousCte(Cleaned))
    => /\ ContainsForbiddenCte(Cleaned)
       /\ ret.valid \/ ret.reason = "ForbiddenCTEOperation"
          => ret.reason = "ForbiddenCTEOperation"

\* a validate call on a text with a mutating verb in a CTE body
C28_Case == Validated /\ HasDangerousCte(Cleaned)

\* the detector never answers true
C28_DetectorNeverFires == Validated => ~ContainsForbiddenCte(Cleaned)

(***************************************************************************)
(* C29.  The error sentinel of the SQL generator.                          *)
(***************************************************************************)
\* the last call was a request to the query tool or to the explain tool
ToolServed == last_op.op \in {"query", "explain"}

\* C29 (sentinel before validation): when the SQL generator returns a text
\* that starts with "ERROR:", the query tool and the explain tool return an
\* error response, invoke neither validate nor extract_tables, and send
\* nothing to the database.
C29_SentinelFirst ==
    (ToolServed /\ IsAiError(sql))
    => /\ tool.status = "error"
       /\ tool.note = "AiError"
       /\ tool.called = <<>>
       /\ tool.sent = <<>>

\* the explain tool answered a generator error
C29_Witness ==
    /\ last_op.op = "explain"
    /\ IsAiError(sql)
    /\ tool.status = "error"
    /\ tool.called = <<>>

\* the query tool answered a generator error
C29_WitnessQuery ==
    /\ last_op.op = "query"
    /\ IsAiError(sql)
    /\ tool.status = "error"
    /\ tool.called = <<>>

(***************************************************************************)
(* C30.  The success path of the query tool.                               *)
(***************************************************************************)
\* validate has returned valid = false for the text of the request
VerdictInvalid ==
    /\ ~IsAiError(sql)
    /\ ~Validate(sql, CurrentPolicy).raised
    /\ ~Validate(sql, CurrentPolicy).valid

\* C30 (success path): when the generated SQL passes validate, the query
\* tool in mode "sql" returns status "success" with that SQL, and in mode
\* "result" goes on to execute it; when validate rejects, the tool returns
\* status "error" with the validator's message.
C30_SuccessPath ==
    last_op.op = "query"
    => /\ (VerdictValid /\ last_op.arg = "sql")
          => tool.status = "success" /\ tool.sql = sql
       /\ (VerdictValid /\ last_op.arg = "result") => sql \in SentTexts
       /\ VerdictInvalid
          => tool.status = "error" /\ tool.note = "invalid" /\ tool.sql = sql

\* a request in mode "sql" for a text that validate accepts
C30_Case ==
    /\ last_op.op = "query" /\ last_op.arg = "sql"
    /\ VerdictValid

\* every request whose text reaches validate ends in the handler's except
\* clause
C30_AlwaysFails ==
    (last_op.op = "query" /\ ~IsAiError(sql))
    => tool.status = "error" /\ tool.note # "invalid" /\ tool.sent = <<>>

(***************************************************************************)
(* C31.  The opening of the circuit.                                       *)
(***************************************************************************)
\* the last n entries of a sequence
LastN(s, n) == IF Len(s) <= n THEN s ELSE SubSeq(s, Len(s) - n + 1, Len(s))

\* the number of failures among results
FailuresIn(results) == Cardinality({k \in 1..Len(results) : ~results[k]})

\* the window of recent results once the failure of the call is recorded
WindowWithFailure(b) == LastN(Append(b.recent_results, FALSE), b.config.sampling_window)

\* C31 (circuit opening): a call that finds the breaker CLOSED leaves it OPEN
\* exactly when it records a failure and the last sampling_window results
\* then hold at least failure_threshold failures and at least
\* volume_threshold results; a success never opens the breaker; the window of
\* recent results never holds more than sampling_window entries.
C31_CircuitOpening ==
    /\ Len(breaker.recent_results) <= breaker.config.sampling_window
    /\ (cb.made /\ cb.found.state = "closed")
       => (cb.left.state = "open"
           <=> /\ cb.outcome = "raised"
               /\ FailuresIn(WindowWithFailure(cb.found)) >= cb.found.config.failure_threshold
               /\ Len(WindowWithFailure(cb.found)) >= cb.found.config.volume_threshold)
    /\ (cb.made /\ cb.outcome = "returned") => cb.left.state # "open"
    /\ (cb.made /\ cb.outcome = "raised")
       => cb.left.recent_results = WindowWithFailure(cb.found)

\* a closed breaker with a full window, a success in it, opened at the
\* second failure in the window
C31_Witness ==
    /\ cb.made
    /\ cb.found.state = "closed"
    /\ cb.found.config.failure_threshold = 2
    /\ Len(cb.found.recent_results) = cb.found.config.sampling_window
    /\ cb.found.recent_results[1]
    /\ cb.left.state = "open"

(***************************************************************************)
(* C32.  The timeout of the open circuit.                                  *)
(***************************************************************************)
\* C32 (open timeout): a breaker that entered OPEN reads as HALF_OPEN at the
\* first state check after timeout_seconds in OPEN, also when calls admitted
\* before the opening end while it is OPEN; it leaves OPEN no earlier than
\* that, reset apart.
C32_OpenTimeout ==
    /\ (breaker.state = "open" /\ opened.checked_at = now)
       => now - opened.at < breaker.config.timeout_seconds
    /\ opened.stayed # None => opened.stayed >= breaker.config.timeout_seconds
    /\ breaker.state = "open" <=> opened.at # None

\* the breaker has been OPEN for timeout_seconds or longer and its state has
\* just been checked
C32_Case ==
    /\ opened.at # None
    /\ opened.checked_at = now
    /\ now - opened.at >= breaker.config.timeout_seconds

\* without calls in flight the timeout runs from the opening
C32_OpenTimeoutSequential ==
    /\ (breaker.state = "open" /\ opened.checked_at = now)
       => now - opened.at < breaker.config.timeout_seconds
    /\ opened.stayed # None => opened.stayed >= breaker.config.timeout_seconds
    /\ pending = 0

(***************************************************************************)
(* C33.  The way out of HALF_OPEN.                                         *)
(***************************************************************************)
\* C33 (half-open exit): a failure recorded in HALF_OPEN moves the breaker to
\* OPEN with success count 0; a recorded result closes the breaker only as
\* the success that completes success_threshold successes recorded in
\* HALF_OPEN with no failure in between, and the closing clears the failure
\* count, the success count and the window of recent results; the success
\* count is non-zero only in HALF_OPEN, where it is the number of those
\* successes.
C33_HalfOpenExit ==
    /\ (opened.result = "failure" /\ opened.found = "half_open")
       => opened.left = "open" /\ opened.left_count = 0
    /\ (opened.result # "" /\ opened.found # "closed" /\ opened.left = "closed")
       => /\ opened.result = "success"
          /\ opened.found = "half_open"
          /\ opened.cleared
    /\ opened.closed_after # None => opened.closed_after >= breaker.config.success_threshold
    /\ breaker.success_count # 0 => breaker.state = "half_open"
    /\ breaker.state = "half_open" => breaker.success_count = opened.streak

\* the breaker closed at the second success in HALF_OPEN
C33_Witness ==
    /\ opened.closed_after = 2
    /\ opened.found = "half_open"
    /\ opened.left = "closed"
    /\ opened.cleared
    /\ opened.stayed # None
    /\ breaker.state = "closed"

(***************************************************************************)
(* C34.  with_retry retries only the listed exceptions.                    *)
(***************************************************************************)
\* the classes an exception of the given class is an instance of
ClassesOf(kind) ==
    IF kind \in {"ConnectionError", "TimeoutError"} THEN {kind, "OSError", "Exception"}
    ELSE {kind, "Exception"}

\* the invocations that raised an exception which is an instance of no class
\* in retry_on
Unlisted(r, os) ==
    {k \in 1..Len(os) : os[k].kind \notin Values /\ ClassesOf(os[k].kind) \cap r.retry_on = {}}

\* C34 (only listed exceptions are retried): an exception of the wrapped
\* function that retry_on does not cover leaves the call at once: the
\* invocation that raised it is the last one, no sleep follows it, and the
\* caller gets that exception; raised by the first invocation, it leaves the
\* call after exactly one invocation.
C34_UnlistedPropagates ==
    \A k \in Unlisted(retry, attempts) :
        /\ k = Len(attempts)
        /\ retry.pc = "raised"
        /\ retry.raised = attempts[k]
        /\ retry.attempt = k - 1
        /\ retry.last_exception # attempts[k]

\* with max_attempts = 3 and retry_on = (ConnectionError,) the first
\* invocation raised ValueError and the call ended
C34_Witness ==
    /\ retry.max_attempts = 3
    /\ retry.retry_on = {"ConnectionError"}
    /\ Len(attempts) = 1
    /\ attempts[1].kind = "ValueError"
    /\ retry.pc = "raised"
    /\ retry.raised = Outcome("ValueError", 1)

(***************************************************************************)
(* C35.  get_all_summaries returns.                                        *)
(***************************************************************************)
\* the operations with a request inside the window
OperationsInWindow ==
    {op \in Operations : Relevant(collector, op, now) # {}}

\* C35 (get_all_summaries always returns): a call of get_all_summaries never
\* waits for the collector's own lock, and when it has returned with requests
\* inside the window its result has one summary for each operation present
\* in the window.
C35_SummariesReturn ==
    /\ ~(summaries.pc = "blocked" /\ collector.lock = "caller")
    /\ (summaries.pc = "returned" /\ collector.lock = Free)
       => \A s \in summaries.result : s.operation \in OperationsOf(collector)

\* get_all_summaries was called with a request inside the window
C35_Case ==
    /\ summaries.pc # "idle"
    /\ OperationsInWindow # {}

\* a call of get_all_summaries that finds a recorded request never returns
C35_NeverReturns == summaries.pc = "returned" => summaries.result = {}

(***************************************************************************)
(* C36.  The block of the rate limiter.                                    *)
(***************************************************************************)
\* the last call was is_allowed of a client whose block had not run out
FoundBlocked ==
    /\ rl.client # ""
    /\ rl.found.blocked[rl.client] # NotBlocked
    /\ rl.time < rl.found.blocked[rl.client]

\* C36 (rate-limit block): with block_duration > 0, a rejection for
\* exceeding the limit blocks the client until block_duration later; every
\* is_allowed call of the client before that time is rejected with
\* retry_after equal to the time left, records no request and leaves the
\* unblock time where it was; no call changes what is kept for another
\* client; after reset(client) the client has no block and no recorded
\* request, and its next request is allowed.
C36_BlockHolds ==
    /\ FoundBlocked
       => /\ ~rl.allowed
          /\ rl.retry_after = rl.found.blocked[rl.client] - rl.time
          /\ rl.left = rl.found
    /\ (rl.client # "" /\ ~FoundBlocked /\ ~rl.allowed /\ rl.found.block_duration > 0)
       => /\ rl.left.blocked[rl.client] = rl.time + rl.found.block_duration
          /\ rl.retry_after = rl.found.block_duration
    /\ rl.client # ""
       => \A d \in Clients \ {rl.client} :
             /\ rl.left.requests[d] = rl.found.requests[d]
             /\ rl.left.blocked[d] = rl.found.blocked[d]
    /\ rl.reset \in Clients
       => limiter.requests[rl.reset] = <<>> /\ limiter.blocked[rl.reset] = NotBlocked
    /\ (rl.client # "" /\ rl.after_reset) => rl.allowed

\* a blocked client with one second of its block left was rejected
C36_Witness ==
    /\ FoundBlocked
    /\ rl.retry_after = 1
    /\ ~rl.allowed
    /\ rl.found.block_duration = 2

\* a client that had been blocked was reset and its next request allowed
C36_WitnessReset ==
    /\ rl.client # ""
    /\ rl.after_reset
    /\ rl.allowed

(***************************************************************************)
(* C37.  Star projections and blocked columns.                             *)
(***************************************************************************)
\* the tables that the text selects "*" or "alias.*" from: the table that
\* follows the FROM after the star
StarTables(s) ==
    {Lower(s[j + 1]) : j \in {k \in 3..(Len(s) - 1) :
        /\ Upper(s[k]) = "FROM"
        /\ s[k - 1] = "*"
        /\ \/ Upper(s[k - 2]) = "SELECT"
           \/ k > 4 /\ s[k - 2] = "." /\ Upper(s[k - 4]) = "SELECT"}}

\* the tables with a non-empty set of blocked columns
TablesWithBlockedColumns == {t \in DOMAIN blocked_columns : blocked_columns[t] # {}}

\* C37 (no blocked column through a star): under a policy with a non-empty
\* blocked_columns[t], validate rejects every statement that selects "*" or
\* "alias.*" from t.
C37_StarRejected ==
    (Validated /\ StarTables(Cleaned) \cap TablesWithBlockedColumns # {})
    => ~ret.valid

\* validate was called on a star projection over a table with blocked columns
C37_Case ==
    /\ Validated
    /\ StarTables(Cleaned) \cap TablesWithBlockedColumns # {}

\* the same for "alias.*"
C37_CaseAlias ==
    /\ Validated
    /\ sql = <<"SELECT", "u", ".", "*", "FROM", "users", "u">>
    /\ "users" \in TablesWithBlockedColumns
    /\ ret.valid

(***************************************************************************)
(* C38.  The comment stripper and quoted strings.                          *)
(***************************************************************************)
\* the lexemes of s that are words or semicolons, in order
RECURSIVE Significant(_)
Significant(s) ==
    IF s = <<>> THEN <<>>
    ELSE (IF IsWord(Head(s)) \/ Head(s) = ";" THEN <<Head(s)>> ELSE <<>>)
         \o Significant(Tail(s))

\* a occurs in b as a subsequence
RECURSIVE IsSubsequence(_, _)
IsSubsequence(a, b) ==
    IF a = <<>> THEN TRUE
    ELSE IF b = <<>> THEN FALSE
    ELSE IF Head(a) = Head(b) THEN IsSubsequence(Tail(a), Tail(b))
    ELSE IsSubsequence(a, Tail(b))

\* a comment delimiter stands inside a quoted string of the raw text
RECURSIVE DelimiterInString(_, _)
DelimiterInString(s, inString) ==
    IF s = <<>> THEN FALSE
    ELSE IF Head(s) = "'" THEN DelimiterInString(Tail(s), ~inString)
    ELSE \/ inString /\ Head(s) \in {"/*", "*/", "--"}
         \/ DelimiterInString(Tail(s), inString)

\* C38 (the stripper removes only comment text): the words and semicolons
\* that the database sees in the raw text, those outside PostgreSQL's
\* comments, are all present, in their order, in the cleaned text that the
\* keyword scan and the parser examine; comment delimiters inside a quoted
\* string start and end no removal.
C38_StripperKeepsCode ==
    Validated
    => IsSubsequence(Significant(PgOutsideComments(sql)), Significant(Cleaned))

\* validate was called on a text with a comment delimiter inside a string
C38_Case ==
    /\ Validated
    /\ DelimiterInString(sql, FALSE)

\* for a text without a comment delimiter inside a string and without a
\* block comment that is nested or left open the cleaned text keeps what the
\* database sees
C38_PlainCommentsKeepCode ==
    (/\ Validated
     /\ ~DelimiterInString(sql, FALSE)
     /\ \A i \in 1..Len(sql) : sql[i] = "--" =>
            \A j \in (i + 1)..Len(sql) :
                (\A k \in i..j : sql[k] # "NL") => sql[j] \notin {"/*", "*/", "'"}
     /\ \A i \in 1..Len(sql) : sql[i] = "/*" =>
            \E j \in (i + 1)..Len(sql) :
                /\ sql[j] = "*/"
                /\ \A k \in (i + 1)..(j - 1) : sql[k] \notin {"/*", "*/", "'"})
    => IsSubsequence(Significant(PgOutsideComments(sql)), Significant(Cleaned))

(***************************************************************************)
(* C39.  The innermost scope of a column reference.                        *)
(***************************************************************************)
\* the unqualified column references of the statement inside a subquery or
\* CTE body whose own SELECT has one plain FROM table and no join
NestedRefs(stmt) ==
    {k \in 1..Len(stmt.cols) :
        /\ stmt.cols[k].qual = ""
        /\ Len(stmt.cols[k].scopes) >= 2
        /\ stmt.cols[k].scopes[1] # ""
        /\ ~stmt.cols[k].joins[1]}

\* C39 (innermost scope wins): a column reference inside a subquery or CTE
\* body whose own SELECT has a single FROM table is attributed to that
\* table, not to the FROM table of an enclosing SELECT, and blocked_columns
\* of the inner table reject it.
C39_InnermostScopeWins ==
    (Validated /\ ReachesExtraction)
    => \A k \in NestedRefs(ParsedStatement) :
          /\ TableRef(ParsedStatement.cols[k], ParsedStatement.tabs)
             = Lower(ParsedStatement.cols[k].scopes[1])
          /\ (/\ Lower(ParsedStatement.cols[k].scopes[1]) \in DOMAIN blocked_columns
              /\ Lower(ParsedStatement.cols[k].name)
                    \in blocked_columns[Lower(ParsedStatement.cols[k].scopes[1])])
             => ~ret.valid

\* validate reached the extractor with a column of a subquery over another
\* table than the enclosing SELECT's
C39_Case ==
    /\ Validated
    /\ ReachesExtraction
    /\ \E k \in NestedRefs(ParsedStatement) :
          /\ ParsedStatement.cols[k].scopes[2] # ""
          /\ Lower(ParsedStatement.cols[k].scopes[2]) # Lower(ParsedStatement.cols[k].scopes[1])

(***************************************************************************)
(* C40.  The freshness of the schema cache.                                *)
(***************************************************************************)
\* C40 (schema cache freshness): a call of get_schema_info with
\* force_refresh = false returns a SchemaInfo from the cache only if the
\* entry was fetched for the requested database less than cache_ttl seconds
\* earlier; a failed fetch raises and leaves the cache empty, so that no
\* entry from before the failure is served afterwards.
C40_CacheFreshness ==
    /\ (served.made /\ served.cached)
       => /\ served.info.database = served.database
          /\ served.at - served.info.fetched_at < schema.cache_ttl
    /\ (served.made /\ served.raised)
       => served.left.cache = EmptyCache /\ served.left.cache_time = None
    /\ \A d \in Databases : schema.cache[d] # NoInfo => schema.cache_time # None

\* a call was answered from the cache
C40_Case == served.made /\ served.cached

\* the second half alone: a failed fetch leaves nothing in the cache
C40_FailureClears ==
    /\ (served.made /\ served.raised)
       => served.left.cache = EmptyCache /\ served.left.cache_time = None
    /\ \A d \in Databases : schema.cache[d] # NoInfo => schema.cache_time # None

\* the first half, for the entry served alone: an entry served for its own
\* database is younger than cache_ttl
C40_OwnEntryFresh ==
    (served.made /\ served.cached /\ served.info.database = served.database)
    => served.at - served.info.fetched_at < schema.cache_ttl

=============================================================================
